---- MODULE Spec2Model ----
(***************************************************************************)
(* desktop_gremlin: the event mediator (events.rs), the behavior pipeline  *)
(* run by DGRuntime::go (runtime.rs, behavior/*.rs), the task scheduler    *)
(* and playback step of GremlinRender::update (behavior/render.rs) and the *)
(* TextureCache (utils.rs).                                                *)
(*                                                                         *)
(* The specifications share the variables:                                 *)
(*   SpecMediator  EventMediator::pump_events, one raw event per step      *)
(*   SpecCache     TextureCache driven by lookup / rearrange / cache       *)
(*   Spec          the frame loop: pump_events, then every behavior's      *)
(*                 update in registration order, then the exit check       *)
(*   FairSpec      Spec with the frame loop kept running (heartbeat)       *)
(***************************************************************************)
EXTENDS Integers, Sequences, FiniteSets, TLC

VARIABLES
    \* ---- EventMediator (events.rs:97-106)
    mouse,            \* MouseState: [down, dragging], each a MouseKeysState
    event_set,        \* the HashMap<Event, Option<EventData>> under construction / handed to the frame
    \* ---- observation of the mediator (SpecMediator only)
    last_raw,         \* the raw event processed by the last step
    emitted,          \* the entries that step inserted into event_set
    before,           \* [mouse, pressed, moved] before that step
    pressed,          \* per button: a button-down seen and no button-up since
    moved,            \* per button: a pointer-move seen since that button-down
    used_buttons,     \* buttons that had a raw button-down or button-up so far
    ever_down,        \* buttons that had a raw button-down so far
    polled,           \* raw events polled in the current pump_events call
    \* ---- TextureCache (utils.rs:217-219) and its observation (SpecCache only)
    texture_cache,    \* VecDeque<(String, TextureCacheItem)>: front = index 1
    last_access,      \* name -> logical time of the last access (0: never / evicted)
    clock,            \* logical time: number of cache accesses so far
    cache_op,         \* the last cache operation: [op, name, evicted, before]
    introduced,       \* how many distinct names were inserted so far
    hits,             \* number of lookup hits so far
    \* ---- DGRuntime / DesktopGremlin (runtime.rs, gremlin.rs:203-216)
    pc,               \* position of DGRuntime::go: "setup", "recv", "update", "check", "done"
    idx,              \* index of the next behavior to set up / update
    behaviors,        \* DGRuntime.behaviors: the registration order
    task_channel,     \* application.task_channel: tasks sent and not yet received
    task_queue,       \* application.task_queue
    should_check_for_action,  \* the ready gate
    should_exit,      \* the exit flag
    current_gremlin,  \* Option<Gremlin>: [animation_map, animator] or NoGremlin
    \* ---- behaviors' own state
    current_animation_name,   \* GremlinRender.current_animation_name
    gremlin_texture,  \* GremlinRender.gremlin_texture: name the texture was made for, or NoTexture
    drag,             \* GremlinDrag: [is_dragging, key_left, move_torwards_cursor, should_check_drag]
    movement,         \* GremlinMovement: [is_active, is_dragging]
    \* ---- observation of the frame loop
    input_open,       \* FALSE once the platform delivers no further raw events
    resolved,         \* what the scheduler did in this frame's update (see NoResolution)
    presented,        \* what the playback step presented in this frame's update
    completed,        \* the active animation presented its last frame since it became active
    calls,            \* the setup / update calls made in the current pass over the behaviors
    \* ---- AsyncAnimationLoader (io.rs) and its threads (SpecLoader only)
    loader,           \* channels, handle list, decode tasks and thread positions (see LoaderInit)
    \* ---- the heartbeat thread of DGRuntime::go (SpecHeartbeat only)
    beat              \* channel, thread positions and counters (see BeatInit)

medVars   == <<mouse, event_set>>
medObs    == <<last_raw, emitted, before, pressed, moved, used_buttons, ever_down, polled>>
cacheObs  == <<last_access, clock, cache_op, introduced, hits>>
appVars   == <<pc, idx, behaviors, task_channel, task_queue, should_check_for_action,
               should_exit, current_gremlin, current_animation_name, gremlin_texture,
               drag, movement>>
appObs    == <<input_open, resolved, presented, completed>>
vars      == <<medVars, medObs, texture_cache, cacheObs, appVars, appObs, calls, loader, beat>>

----------------------------------------------------------------------------
(* Bounds of the model                                                     *)

\* raw events polled by one pump_events call in SpecMediator
MaxPoll == 3
\* distinct animation names offered to the cache in SpecCache
MaxNames == 11
\* lookup hits (each followed by rearrange) in SpecCache
MaxHits == 2
\* insertions into the cache in SpecCache
MaxMisses == 12
\* raw events one frame of Spec can find queued
MaxRaw == 1
\* Spec takes new raw events only while fewer tasks than this are on the channel
MaxChannel == 2
\* Spec takes new raw events only while fewer tasks than this are in the queue
MaxQueue == 2
\* Load commands sent to the AsyncAnimationLoader in SpecLoader
MaxLoads == 3
\* heartbeats waiting on the checker's channel in SpecLoader: the supervisor
\* sleeps between two sends
MaxBeats == 2
\* frames the loop of SpecHeartbeat runs before it must end
MaxFrames == 6

----------------------------------------------------------------------------
(* events.rs: the semantic event model                                     *)

\* MouseButton (events.rs:41-48)
TrackedButtons == {"Left", "Middle", "Right"}
\* the buttons raw events are drawn from: the tracked ones and one untracked
RawButtons == TrackedButtons \cup {"X1"}

NoButton == "-"

\* Event (events.rs:9-20); win is "Moved"/"Unhandled" for Window, "-" otherwise
Ev(kind, btn) == [kind |-> kind, btn |-> btn]
EvQuit      == Ev("Quit", NoButton)
EvMouseMove == Ev("MouseMove", NoButton)
EvWinMoved  == Ev("WindowMoved", NoButton)
EvWinOther  == Ev("WindowUnhandled", NoButton)
EvUnhandled == Ev("Unhandled", NoButton)

\* raw platform events (sdl3::event::Event), payloads abstracted to their kind
RawEvents ==
    {Ev("RawQuit", NoButton), Ev("RawMotion", NoButton),
     Ev("RawWindowMoved", NoButton), Ev("RawWindowOther", NoButton),
     Ev("RawOther", NoButton)}
    \cup {Ev("RawDown", b) : b \in RawButtons}
    \cup {Ev("RawUp", b) : b \in RawButtons}

\* impl From<sdl3::event::Event> for Event (events.rs:55-73)
EventFrom(raw) ==
    CASE raw.kind = "RawQuit"        -> EvQuit
      [] raw.kind = "RawDown"        -> Ev("MouseButtonDown", raw.btn)
      [] raw.kind = "RawUp"          -> Ev("MouseButtonUp", raw.btn)
      [] raw.kind = "RawMotion"      -> EvMouseMove
      [] raw.kind = "RawWindowMoved" -> EvWinMoved
      [] raw.kind = "RawWindowOther" -> EvWinOther
      [] OTHER                       -> EvUnhandled

\* MouseKeysState::default (utils.rs:183-188)
NoKeys == [b \in TrackedButtons |-> FALSE]

\* MouseKeysState::set_button (utils.rs:191-198): untracked buttons are ignored
set_button(keys, button, state) ==
    IF button \in TrackedButtons THEN [keys EXCEPT ![button] = state] ELSE keys

\* MouseKeysState::is_active (utils.rs:200-207)
is_active(keys, button) ==
    IF button \in TrackedButtons THEN keys[button] ELSE FALSE

\* MouseState::any_down (events.rs:109-111)
any_down(m) == m.down["Left"] \/ m.down["Right"] \/ m.down["Middle"]

\* MouseState::any_drag (events.rs:112-114)
any_drag(m) == m.dragging["Left"] \/ m.dragging["Right"] \/ m.dragging["Middle"]

\* reset_key clearing the down flag only
reset_key_KeepsDragging(m, button) ==
    IF button \in TrackedButtons
    THEN [m EXCEPT !.down = [m.down EXCEPT ![button] = FALSE]]
    ELSE m

\* MouseState::reset_key (events.rs:116-132)
reset_key(m, button) ==
    IF button \in TrackedButtons
    THEN [down |-> [m.down EXCEPT ![button] = FALSE],
          dragging |-> [m.dragging EXCEPT ![button] = FALSE]]
    ELSE m

\* HashMap::insert: a later entry with the same key replaces the earlier one.
\* The map is a set of [ev, data] entries with at most one entry per ev.
MapInsert(map, ev, data) ==
    {e \in map : e.ev # ev} \cup {[ev |-> ev, data |-> data]}

MapHas(map, ev) == \E e \in map : e.ev = ev

MapData(map, ev) == (CHOOSE e \in map : e.ev = ev).data

\* ButtonUpParsed reporting DragEnd for the released button whenever any
\* button is dragging
ButtonUpParsed_DragEndForAny(m, button) ==
    IF ~any_drag(m)
    THEN [ev |-> Ev("Click", button), data |-> "FCoordinate"]
    ELSE [ev |-> Ev("DragEnd", button), data |-> "FCoordinate"]

\* ButtonUpParsed with the first test on any_down instead of any_drag
ButtonUpParsed_AnyDown(m, button) ==
    IF ~any_down(m)
    THEN [ev |-> Ev("Click", button), data |-> "FCoordinate"]
    ELSE IF is_active(m.dragging, button)
         THEN [ev |-> Ev("DragEnd", button), data |-> "FCoordinate"]
         ELSE [ev |-> EvUnhandled, data |-> "none"]

\* the gesture reported for a button-up (events.rs:154-164): the parsed event
\* and its payload, or "none" when the raw event itself is recorded
ButtonUpParsed(m, button) ==
    IF ~any_drag(m)
    THEN [ev |-> Ev("Click", button), data |-> "FCoordinate"]
    ELSE IF is_active(m.dragging, button)
         THEN [ev |-> Ev("DragEnd", button), data |-> "FCoordinate"]
         ELSE [ev |-> EvUnhandled, data |-> "none"]

\* the entries a pointer-move inserts for the tracked buttons (events.rs:171-206)
MotionEntries(m) ==
    {[ev |-> Ev("DragStart", b), data |-> "FCoordinate"] :
        b \in {t \in TrackedButtons : m.down[t] /\ ~m.dragging[t]}}
    \cup
    {[ev |-> Ev("Drag", b), data |-> "Difference"] :
        b \in {t \in TrackedButtons : m.down[t] /\ m.dragging[t]}}

\* the pointer-move arm without `self.mouse.dragging.set_button(&btn, true)`
MotionState_NoFlag(m) == m

\* the MouseState after a pointer-move (events.rs:188-194)
MotionState(m) ==
    [m EXCEPT !.dragging = [b \in TrackedButtons |->
                               IF m.down[b] /\ ~m.dragging[b] THEN TRUE ELSE m.dragging[b]]]

\* the entries one raw event inserts into the event set (events.rs:142-222)
PumpEntries(m, raw) ==
    CASE raw.kind = "RawUp" ->
            LET p == ButtonUpParsed(m, raw.btn)
            IN  IF p.data # "none" THEN {p}
                ELSE {[ev |-> EventFrom(raw), data |-> "None"]}
      [] raw.kind = "RawMotion" ->
            MotionEntries(m) \cup {[ev |-> EventFrom(raw), data |-> "None"]}
      [] raw.kind = "RawWindowMoved" ->
            {[ev |-> EventFrom(raw), data |-> "Coordinate"]}
      [] OTHER ->
            {[ev |-> EventFrom(raw), data |-> "None"]}

\* the MouseState after one raw event (events.rs:144-216)
PumpState(m, raw) ==
    CASE raw.kind = "RawDown"   -> [m EXCEPT !.down = set_button(m.down, raw.btn, TRUE)]
      [] raw.kind = "RawUp"     -> reset_key(m, raw.btn)
      [] raw.kind = "RawMotion" -> MotionState(m)
      [] OTHER                  -> m

RECURSIVE InsertAll(_, _)
InsertAll(map, entries) ==
    IF entries = {} THEN map
    ELSE LET e == CHOOSE x \in entries : TRUE
         IN  InsertAll(MapInsert(map, e.ev, e.data), entries \ {e})

\* EventMediator::pump_events over a sequence of raw events (events.rs:136-226):
\* the final MouseState and the event set, starting from an empty set
RECURSIVE pump_events(_, _, _)
pump_events(m, map, raws) ==
    IF raws = <<>> THEN [mouse |-> m, event_set |-> map]
    ELSE pump_events(PumpState(m, Head(raws)),
                     InsertAll(map, PumpEntries(m, Head(raws))),
                     Tail(raws))

----------------------------------------------------------------------------
(* utils.rs: TextureCache                                                  *)

\* const CACHE_CAPACITY (utils.rs:266)
CACHE_CAPACITY == 10

\* the animation names the behaviors send (behavior/*.rs), in a fixed order
AnimationNames ==
    <<"INTRO", "IDLE", "OUTRO", "CLICK", "PAT", "GRAB", "RUNIDLE", "RUNLEFT",
      "RUNRIGHT", "RUNUP", "RUNDOWN", "UPLEFT", "UPRIGHT", "DOWNLEFT", "DOWNRIGHT">>

\* Animator built from a decoded Animation (gremlin.rs:1136-1160): frame 0
FreshAnimator(name, count) ==
    [name |-> name, current_frame |-> 0, sprite_count |-> count]

\* a cache entry taken after the playback step advanced the cursor
CacheEntry_AfterPlayback(name, animator, texture) ==
    [name |-> name,
     animator |-> [animator EXCEPT !.current_frame =
                       (animator.current_frame + 1) % animator.sprite_count],
     texture |-> texture]

\* a cache entry (String, (Animator, Rc<Texture>)) (utils.rs:218-221)
CacheEntry(name, animator, texture) ==
    [name |-> name, animator |-> animator, texture |-> texture]

\* the sequence without its element at position pos (VecDeque::remove)
RemoveAt(data, pos) ==
    [i \in 1..(Len(data) - 1) |-> IF i < pos THEN data[i] ELSE data[i + 1]]

\* rearrange that exchanges the accessed entry with the back entry
rearrange_SwapWithBack(data, pos) ==
    IF pos \in 1..Len(data)
    THEN [data EXCEPT ![pos] = data[Len(data)], ![Len(data)] = data[pos]]
    ELSE data

\* rearrange that re-inserts the accessed entry at the front
rearrange_PushFront(data, pos) ==
    IF pos \in 1..Len(data) THEN <<data[pos]>> \o RemoveAt(data, pos) ELSE data

\* rearrange that appends a copy of the accessed entry without removing it
rearrange_NoRemove(data, pos) ==
    IF pos \in 1..Len(data) THEN Append(data, data[pos]) ELSE data

\* TextureCache::rearrange (utils.rs:225-229). VecDeque index i is position
\* i + 1 here; remove() of an index out of range is None and changes nothing.
rearrange(data, pos) ==
    IF pos \in 1..Len(data) THEN Append(RemoveAt(data, pos), data[pos]) ELSE data

\* cache that inserts the new entry at the front
cache_PushFront(data, entry) ==
    <<entry>> \o (IF Len(data) >= CACHE_CAPACITY THEN Tail(data) ELSE data)

\* cache that evicts but drops the new entry
cache_NoInsert(data, entry) ==
    IF Len(data) >= CACHE_CAPACITY THEN Tail(data) ELSE data

\* cache that evicts only above the capacity
cache_OffByOne(data, entry) ==
    Append(IF Len(data) > CACHE_CAPACITY THEN Tail(data) ELSE data, entry)

\* TextureCache::cache (utils.rs:244-254): `CACHE_CAPACITY..` matches len >= 10
cache(data, entry) ==
    Append(IF Len(data) >= CACHE_CAPACITY THEN Tail(data) ELSE data, entry)

\* lookup that never finds an entry
lookup_NeverFinds(data, name) == 0

\* TextureCache::lookup (utils.rs:256-263): scans from the back, returns the
\* position of the first match, 0 for None
lookup(data, name) ==
    IF \E i \in 1..Len(data) : data[i].name = name
    THEN CHOOSE i \in 1..Len(data) :
            /\ data[i].name = name
            /\ \A j \in (i + 1)..Len(data) : data[j].name # name
    ELSE 0

\* gremlin.rs:1110
DEFAULT_COLUMN_COUNT == 10

\* Animator::get_frame_rect (gremlin.rs:1163-1171): the cell of the sprite
\* grid the cursor addresses, as column and row
get_frame_rect(animator) ==
    [col |-> animator.current_frame % DEFAULT_COLUMN_COUNT,
     row |-> animator.current_frame \div DEFAULT_COLUMN_COUNT]

\* the names held by the cache, front first
CacheNamesOf(data) == [i \in 1..Len(data) |-> data[i].name]

----------------------------------------------------------------------------
(* Values shared by the specifications                                     *)

\* MouseState::default (events.rs:101-106)
MouseDefault == [down |-> NoKeys, dragging |-> NoKeys]

NoRaw == Ev("NoRaw", NoButton)
NoGremlin == [loaded |-> FALSE]
NoAnimator == [name |-> "-", current_frame |-> 0, sprite_count |-> 0]
NoTexture == "-"
\* a GremlinTask (gremlin.rs:959-963) with two observation marks:
\*   fresh   sent during the current frame
\*   doomed  was in task_queue when a PlayInterrupt was sent
Task(kind, name) == [kind |-> kind, name |-> name, fresh |-> TRUE, doomed |-> FALSE]
NoTask == [kind |-> "None", name |-> "-", fresh |-> FALSE, doomed |-> FALSE]
\* task: the frame's task_board; how: "interrupt", "pop" or "none";
\* branch: "restart", "hit", "miss", "undecodable", "unknown", "no-gremlin" or "none";
\* popped: entries the scheduler removed from task_queue;
\* gate_after: the ready gate after the resolution, before the playback step;
\* ran: the scheduler's update has run in this frame
NoResolution == [task |-> NoTask, how |-> "none", branch |-> "none", popped |-> 0,
                 gate_before |-> TRUE, gate_after |-> TRUE, ran |-> FALSE]
NoPresent == [name |-> "-", frame |-> 0, last |-> FALSE]
NoCacheOp == [op |-> "none", name |-> "-", evicted |-> "-", before |-> <<>>]

\* the mediator's observation variables at rest
MedObsInit ==
    /\ last_raw = NoRaw
    /\ emitted = {}
    /\ before = [mouse |-> MouseDefault,
                 pressed |-> [b \in RawButtons |-> FALSE],
                 moved |-> [b \in RawButtons |-> FALSE]]
    /\ pressed = [b \in RawButtons |-> FALSE]
    /\ moved = [b \in RawButtons |-> FALSE]
    /\ used_buttons = {}
    /\ ever_down = {}
    /\ polled = 0

\* the cache's observation variables at rest
CacheObsInit ==
    /\ last_access = [i \in 1..Len(AnimationNames) |-> 0]
    /\ clock = 0
    /\ cache_op = NoCacheOp
    /\ introduced = 0
    /\ hits = 0

\* the frame loop's variables at rest (for the specifications that do not run it)
\* DGRuntime::go before the frame loop (runtime.rs:24-33): the heartbeat
\* thread is spawned, the one-slot channel is empty
BeatInit ==
    [slot |-> 0,                 \* heartbeats buffered in the sync_channel
     thread |-> "send",          \* heartbeat thread: send, blocked (in send), sleep, exited
     main |-> "start",           \* DGRuntime::go: start, recv, frame, dropped (the
                                 \* receiver is dropped, join pending), joined
     frames |-> 0,               \* frames run so far
     blocked_at_drop |-> FALSE]  \* observation: the thread was blocked in send when
                                 \* the receiver was dropped

\* the decode tasks a run of SpecLoader can spawn, named by their Load
Handles == 1..MaxLoads

\* AsyncAnimationLoader::default (io.rs:24-96) once the supervisor thread has
\* spawned the checker and the processor: empty channels, empty handle_list
LoaderInit ==
    [task_rx |-> <<>>,               \* LoaderTask commands sent and not yet received
     result_rx |-> <<>>,             \* handles whose (name, animation) was forwarded
     checker_heartbeat_rx |-> <<>>,  \* booleans sent to the checker and not yet received
     handle_list |-> <<>>,           \* Vec<JoinHandle>: index 0 of the code is index 1
     finished_handles |-> <<>>,      \* the indices the checker still has to remove
     decode |-> [h \in Handles |-> "unspawned"],
                                     \* per decode task: unspawned, running, finished,
                                     \* panicked, joined
     checker |-> "recv",             \* recv, reap (holds the lock), join (blocked in
                                     \* join, holds the lock), panicked, timed_out,
                                     \* exited (it received `false`)
     joining |-> 0,                  \* the handle the checker is blocked on
     processor |-> "recv",           \* recv, panicked, exited
     supervisor |-> "loop",          \* loop, exited
     owner |-> "open",               \* the loader's owner: open, join (in drop), dropped
     loads |-> 0,                    \* Load commands sent so far
     removed_unfinished |-> FALSE]   \* observation: a handle was removed and joined
                                     \* while its task was still running

AppAtRest ==
    /\ pc = "recv"
    /\ idx = 1
    /\ behaviors = <<>>
    /\ task_channel = <<>>
    /\ task_queue = <<>>
    /\ should_check_for_action = TRUE
    /\ should_exit = FALSE
    /\ current_gremlin = NoGremlin
    /\ current_animation_name = ""
    /\ gremlin_texture = NoTexture
    /\ drag = [is_dragging |-> FALSE, key_left |-> FALSE,
               move_torwards_cursor |-> FALSE, should_check_drag |-> FALSE]
    /\ movement = [is_active |-> FALSE, is_dragging |-> FALSE]
    /\ input_open = TRUE
    /\ resolved = NoResolution
    /\ presented = NoPresent
    /\ completed = FALSE
    /\ calls = <<>>
    /\ loader = LoaderInit
    /\ beat = BeatInit

----------------------------------------------------------------------------
(* SpecMediator: EventMediator::pump_events, one raw event per step        *)

InitMediator ==
    /\ mouse = MouseDefault          \* EventMediator::default (runtime.rs:41)
    /\ event_set = {}
    /\ MedObsInit
    /\ texture_cache = <<>>
    /\ CacheObsInit
    /\ AppAtRest

\* one iteration of `for event in sdl_event_pump.poll_iter()` (events.rs:141-223)
MedPoll(raw) ==
    /\ polled < MaxPoll
    /\ LET r == pump_events(mouse, event_set, <<raw>>)
       IN  /\ mouse' = r.mouse
           /\ event_set' = r.event_set
    /\ emitted' = PumpEntries(mouse, raw)
    /\ last_raw' = raw
    /\ before' = [mouse |-> mouse, pressed |-> pressed, moved |-> moved]
    /\ pressed' = CASE raw.kind = "RawDown" -> [pressed EXCEPT ![raw.btn] = TRUE]
                    [] raw.kind = "RawUp"   -> [pressed EXCEPT ![raw.btn] = FALSE]
                    [] OTHER                -> pressed
    /\ moved' = CASE raw.kind = "RawMotion" -> [b \in RawButtons |-> moved[b] \/ pressed[b]]
                  [] raw.kind = "RawUp"     -> [moved EXCEPT ![raw.btn] = FALSE]
                  [] OTHER                  -> moved
    /\ used_buttons' = IF raw.kind \in {"RawDown", "RawUp"}
                       THEN used_buttons \cup {raw.btn} ELSE used_buttons
    /\ ever_down' = IF raw.kind = "RawDown" THEN ever_down \cup {raw.btn} ELSE ever_down
    /\ polled' = polled + 1
    /\ UNCHANGED <<texture_cache, cacheObs, appVars, appObs, calls, loader, beat>>

\* pump_events returns the event set (events.rs:225); the next call starts
\* from an empty set (events.rs:140) with the MouseState kept
MedReturn ==
    /\ polled > 0
    /\ event_set' = {}
    /\ polled' = 0
    /\ emitted' = {}
    /\ last_raw' = NoRaw
    /\ UNCHANGED <<mouse, before, pressed, moved, used_buttons, ever_down,
                   texture_cache, cacheObs, appVars, appObs, calls, loader, beat>>

NextMediator ==
    \/ \E raw \in RawEvents : MedPoll(raw)
    \/ MedReturn

SpecMediator == InitMediator /\ [][NextMediator]_vars

----------------------------------------------------------------------------
(* SpecCache: the TextureCache as GremlinRender::update drives it          *)
(* (render.rs:62-121): lookup, then rearrange on a hit or cache on a miss  *)

InitCache ==
    /\ texture_cache = <<>>          \* TextureCache::default (utils.rs:216)
    /\ CacheObsInit
    /\ mouse = MouseDefault
    /\ event_set = {}
    /\ MedObsInit
    /\ AppAtRest

NameIndex(name) == CHOOSE i \in 1..Len(AnimationNames) : AnimationNames[i] = name

\* lookup misses: the animation is decoded and inserted (render.rs:79-120).
\* Names are interchangeable, so a name never inserted before is always the
\* next one of AnimationNames.
CacheMiss(i) ==
    /\ i \in 1..MaxNames
    /\ i <= introduced + 1
    /\ clock - hits < MaxMisses
    /\ lookup(texture_cache, AnimationNames[i]) = 0
    /\ LET name == AnimationNames[i]
           entry == CacheEntry(name, FreshAnimator(name, 1), name)
       IN  /\ texture_cache' = cache(texture_cache, entry)
           /\ cache_op' = [op |-> "insert", name |-> name,
                           evicted |-> IF \E e \in 1..Len(texture_cache) :
                                            \A k \in 1..Len(texture_cache') :
                                                texture_cache'[k].name # texture_cache[e].name
                                       THEN texture_cache[CHOOSE e \in 1..Len(texture_cache) :
                                                \A k \in 1..Len(texture_cache') :
                                                    texture_cache'[k].name # texture_cache[e].name].name
                                       ELSE "-",
                           before |-> CacheNamesOf(texture_cache)]
    /\ clock' = clock + 1
    /\ last_access' = [last_access EXCEPT ![i] = clock + 1]
    /\ introduced' = IF i = introduced + 1 THEN i ELSE introduced
    /\ UNCHANGED <<hits, medVars, medObs, appVars, appObs, calls, loader, beat>>

\* lookup hits: the entry is promoted (render.rs:69-70)
CacheHit(i) ==
    /\ i \in 1..MaxNames
    /\ hits < MaxHits
    /\ lookup(texture_cache, AnimationNames[i]) # 0
    /\ texture_cache' = rearrange(texture_cache, lookup(texture_cache, AnimationNames[i]))
    /\ cache_op' = [op |-> "hit", name |-> AnimationNames[i], evicted |-> "-",
                    before |-> CacheNamesOf(texture_cache)]
    /\ clock' = clock + 1
    /\ hits' = hits + 1
    /\ last_access' = [last_access EXCEPT ![i] = clock + 1]
    /\ UNCHANGED <<introduced, medVars, medObs, appVars, appObs, calls, loader, beat>>

NextCache ==
    \/ \E i \in 1..Len(AnimationNames) : CacheMiss(i)
    \/ \E i \in 1..Len(AnimationNames) : CacheHit(i)

SpecCache == InitCache /\ [][NextCache]_vars

----------------------------------------------------------------------------
(* The entity (Gremlin) and the tasks                                      *)

\* The animation_map of a loaded Gremlin (gremlin.rs:193-201), per name:
\*   status "ok"      in the map, its image decodes
\*          "bad"     in the map, TryInto<Animation> fails (gremlin.rs:169-190)
\*          "absent"  not in the map
\*   sprite_count     AnimationProperties.sprite_count
Anim(status, count) == [status |-> status, sprite_count |-> count]

AnimSet == {AnimationNames[i] : i \in 1..Len(AnimationNames)}

\* an entity that defines every animation: INTRO of 3 frames, the others of 2
FullMap ==
    [n \in AnimSet |->
        CASE n = "INTRO" -> Anim("ok", 3)
          [] OTHER       -> Anim("ok", 2)]

\* an entity with a one-frame IDLE, no CLICK and an OUTRO whose image is missing
OddMap ==
    [n \in AnimSet |->
        CASE n = "INTRO" -> Anim("ok", 2)
          [] n = "IDLE"  -> Anim("ok", 1)
          [] n = "OUTRO" -> Anim("bad", 2)
          [] n = "CLICK" -> Anim("absent", 0)
          [] OTHER       -> Anim("ok", 2)]

Gremlin(map) == [loaded |-> TRUE, animation_map |-> map, animator |-> NoAnimator]

\* what load_gremlin(..).ok() can give (runtime.rs:34-38, common.rs:8-13)
Entities == {NoGremlin, Gremlin(FullMap), Gremlin(OddMap)}

HasAnimator(g) == g.loaded /\ g.animator # NoAnimator

\* the part of DesktopGremlin a behavior's update can change by sending and
\* clearing: [task_channel, task_queue]
\* Sender::send (mpsc): the task is appended to the channel. A PlayInterrupt
\* marks the tasks that are in task_queue at that moment.
SendTask(a, kind, name) ==
    [task_channel |-> Append(a.task_channel, Task(kind, name)),
     task_queue |-> IF kind = "PlayInterrupt"
                    THEN [i \in 1..Len(a.task_queue) |->
                             [a.task_queue[i] EXCEPT !.doomed = TRUE]]
                    ELSE a.task_queue]

\* application.task_queue.clear()
ClearQueue(a) == [a EXCEPT !.task_queue = <<>>]

----------------------------------------------------------------------------
(* behavior/common.rs, click.rs, drag.rs, movement.rs                      *)

\* CommonBehavior::setup with the two sends swapped
CommonSetup_IdleFirst(a) == SendTask(SendTask(a, "Play", "IDLE"), "Play", "INTRO")

\* CommonBehavior::setup (common.rs:7-23), the sends
CommonSetup(a) == SendTask(SendTask(a, "Play", "INTRO"), "Play", "IDLE")

\* the Lifecycle update without the test for the Quit event
CommonUpdate_Always(a, events) ==
    SendTask(ClearQueue(a), "PlayInterrupt", "OUTRO")

\* CommonBehavior::update (common.rs:25-39)
CommonUpdate(a, events) ==
    IF MapHas(events, EvQuit)
    THEN SendTask(ClearQueue(a), "PlayInterrupt", "OUTRO")
    ELSE a

\* GremlinClick::update (click.rs:17-30)
ClickUpdate(a, events) ==
    IF MapHas(events, Ev("Click", "Left"))
    THEN SendTask(SendTask(a, "PlayInterrupt", "CLICK"), "Play", "IDLE")
    ELSE a

\* `if let Some(EventData::Coordinate { x, y }) = context.events.get(&Event::MouseMove)`
\* (drag.rs:70): the entry must carry a Coordinate payload
MouseMoveWithCoordinate(events) ==
    MapHas(events, EvMouseMove) /\ MapData(events, EvMouseMove) = "Coordinate"

\* GremlinDrag::update (drag.rs:36-94): d is the behavior's own state, a the
\* channel and queue; the result holds both
DragUpdate(d, a, events) ==
    LET d1 == IF MapHas(events, Ev("MouseButtonDown", "Left"))
              THEN [d EXCEPT !.key_left = TRUE] ELSE d
        up == MapHas(events, Ev("MouseButtonUp", "Left"))
        \* drag.rs:49-56
        a1 == IF up /\ ~d1.is_dragging /\ d1.key_left
              THEN SendTask(a, "PlayInterrupt", "CLICK") ELSE a
        d2 == IF up /\ ~d1.is_dragging /\ d1.key_left
              THEN [d1 EXCEPT !.move_torwards_cursor = ~@] ELSE d1
        \* drag.rs:57-62
        a2 == IF up /\ d2.is_dragging /\ d2.key_left
              THEN SendTask(a1, "PlayInterrupt", "PAT") ELSE a1
        \* drag.rs:63-68
        a3 == IF up THEN SendTask(a2, "Play", "IDLE") ELSE a2
        d3 == IF up THEN [d2 EXCEPT !.is_dragging = FALSE, !.key_left = FALSE] ELSE d2
        mv == MouseMoveWithCoordinate(events)
        grab == mv /\ d3.key_left /\ ~d3.is_dragging
        \* drag.rs:71-79
        a4 == IF grab THEN ClearQueue(SendTask(a3, "PlayInterrupt", "GRAB")) ELSE a3
        d4 == IF grab THEN [d3 EXCEPT !.is_dragging = TRUE] ELSE d3
        \* drag.rs:92
        d5 == IF mv THEN [d4 EXCEPT !.should_check_drag = ~@] ELSE d4
    IN  [drag |-> d5, app |-> a4]

\* the directional animation names get_move_direction can select
\* (movement.rs:83-99), bounded to one of them
Directions == {"RUNLEFT"}

\* GremlinMovement::update, the flags (movement.rs:38-56)
MovementFlags(m, events) ==
    LET m1 == IF MapHas(events, Ev("Click", "Left"))
              THEN [m EXCEPT !.is_active = ~@] ELSE m
        m2 == IF MapHas(events, Ev("DragStart", "Left"))
              THEN [m1 EXCEPT !.is_dragging = TRUE] ELSE m1
    IN  IF MapHas(events, Ev("DragEnd", "Left"))
        THEN [m2 EXCEPT !.is_dragging = FALSE] ELSE m2

\* the follow step without the `!self.is_dragging` test
MovementFollow_IgnoresDrag(m, a, g, desired) ==
    IF m.is_active /\ HasAnimator(g) /\ g.animator.name # desired
    THEN ClearQueue(SendTask(a, "PlayInterrupt", desired))
    ELSE a

\* GremlinMovement::update, the follow step (movement.rs:58-108): `desired`
\* is the animation name computed from the cursor position
MovementFollow(m, a, g, desired) ==
    IF m.is_active /\ ~m.is_dragging /\ HasAnimator(g) /\ g.animator.name # desired
    THEN ClearQueue(SendTask(a, "PlayInterrupt", desired))
    ELSE a

----------------------------------------------------------------------------
(* behavior/render.rs: the task scheduler and the playback step            *)

IsInterrupt(task) == task.kind = "PlayInterrupt"

\* position of the first PlayInterrupt on the channel, 0 if there is none
FirstInterrupt(chan) ==
    IF \E k \in 1..Len(chan) : IsInterrupt(chan[k])
    THEN CHOOSE k \in 1..Len(chan) :
            IsInterrupt(chan[k]) /\ \A j \in 1..(k - 1) : ~IsInterrupt(chan[j])
    ELSE 0

\* the drain discarding the tasks behind the PlayInterrupt it stopped at
Drain_DiscardsRest(chan, queue) ==
    LET k == FirstInterrupt(chan)
    IN  IF k = 0
        THEN [board |-> NoTask, how |-> "none",
              task_channel |-> <<>>, task_queue |-> queue \o chan]
        ELSE [board |-> chan[k], how |-> "interrupt",
              task_channel |-> <<>>,
              task_queue |-> queue \o SubSeq(chan, 1, k - 1)]

\* the drain pushing the received tasks to the queue while leaving them on
\* the channel
Drain_KeepsChannel(chan, queue) ==
    LET k == FirstInterrupt(chan)
    IN  IF k = 0
        THEN [board |-> NoTask, how |-> "none",
              task_channel |-> chan, task_queue |-> queue \o chan]
        ELSE [board |-> chan[k], how |-> "interrupt",
              task_channel |-> SubSeq(chan, k + 1, Len(chan)),
              task_queue |-> queue \o SubSeq(chan, 1, k - 1)]

\* the channel drain (render.rs:31-40): try_recv until the channel is empty or
\* a PlayInterrupt is read; that one becomes task_board, the tasks read before
\* it are pushed on task_queue, the tasks behind it stay on the channel
Drain(chan, queue) ==
    LET k == FirstInterrupt(chan)
    IN  IF k = 0
        THEN [board |-> NoTask, how |-> "none",
              task_channel |-> <<>>, task_queue |-> queue \o chan]
        ELSE [board |-> chan[k], how |-> "interrupt",
              task_channel |-> SubSeq(chan, k + 1, Len(chan)),
              task_queue |-> queue \o SubSeq(chan, 1, k - 1)]

\* render.rs:42-46 without the test of the ready gate
PickTask_IgnoreGate(dr, gate) ==
    IF dr.board = NoTask /\ dr.task_queue # <<>>
    THEN [dr EXCEPT !.board = Head(dr.task_queue), !.how = "pop",
                    !.task_queue = Tail(dr.task_queue)]
    ELSE dr

\* render.rs:42-46: without an interrupt and with the ready gate true, the
\* front of the queue is popped (pop_front of an empty queue is None)
PickTask(dr, gate) ==
    IF dr.board = NoTask /\ gate /\ dr.task_queue # <<>>
    THEN [dr EXCEPT !.board = Head(dr.task_queue), !.how = "pop",
                    !.task_queue = Tail(dr.task_queue)]
    ELSE dr

\* render.rs:55-58 without the reset of the frame counter
Restart_KeepsFrame(r) == [r EXCEPT !.branch = "restart"]

\* render.rs:55-58: the task names the animation that is already current
Restart(r) == [r EXCEPT !.gremlin.animator.current_frame = 0, !.branch = "restart"]

\* a skipped task that closes the ready gate all the same
Skip_ClosesGate(r, why) == [r EXCEPT !.gate = FALSE, !.branch = why]

\* render.rs:49-51, 59-61: without an entity, or for a name that is not in
\* the animation map, the task is dropped and nothing is written
Skip(r, why) == [r EXCEPT !.branch = why]

\* the render state a resolution reads and writes:
\*   [gremlin, current_animation_name, texture_cache, gremlin_texture, gate, branch]
\* render.rs:48-128: the resolution of task_board
Resolve(r, board) ==
    IF board = NoTask THEN [r EXCEPT !.branch = "none"]
    ELSE IF ~r.gremlin.loaded THEN Skip(r, "no-gremlin")
    ELSE IF r.gremlin.animator # NoAnimator /\ board.name = r.current_animation_name
    THEN Restart(r)
    ELSE IF board.name \in DOMAIN r.gremlin.animation_map
            /\ r.gremlin.animation_map[board.name].status # "absent"
    THEN LET pos == lookup(r.texture_cache, board.name)
             props == r.gremlin.animation_map[board.name]
         IN  IF pos # 0
             THEN \* render.rs:69-78
                  LET data == rearrange(r.texture_cache, pos)
                      back == data[Len(data)]
                  IN  [r EXCEPT !.texture_cache = data,
                                !.gremlin.animator = back.animator,
                                !.gremlin_texture = back.texture,
                                !.gate = FALSE,
                                !.current_animation_name = board.name,
                                !.branch = "hit"]
             ELSE IF props.status = "ok"
             THEN \* render.rs:79-120
                  LET animator == FreshAnimator(board.name, props.sprite_count)
                  IN  [r EXCEPT !.gremlin_texture = board.name,
                                !.gremlin.animator = animator,
                                !.texture_cache =
                                    cache(r.texture_cache,
                                          CacheEntry(board.name, animator, board.name)),
                                !.gate = FALSE,
                                !.current_animation_name = board.name,
                                !.branch = "miss"]
             ELSE \* decoding failed: render.rs:123-124 still run
                  [r EXCEPT !.gate = FALSE,
                            !.current_animation_name = board.name,
                            !.branch = "undecodable"]
    ELSE Skip(r, "unknown")

\* the playback step opening the ready gate on the first frame of a round
\* instead of the last
Playback_GateOnFirst(r) ==
    IF r.gremlin.loaded /\ r.gremlin_texture # NoTexture /\ r.gremlin.animator # NoAnimator
    THEN LET an == r.gremlin.animator
             last == an.current_frame + 1 = an.sprite_count
         IN  [r EXCEPT !.presented = [name |-> an.name, frame |-> an.current_frame,
                                      last |-> last],
                       !.gate = IF an.current_frame = 0 THEN TRUE ELSE r.gate,
                       !.exit = IF last /\ r.current_animation_name = "OUTRO"
                                THEN TRUE ELSE r.exit,
                       !.gremlin.animator.current_frame =
                            (an.current_frame + 1) % an.sprite_count]
    ELSE r

\* the playback step advancing the cursor without the modulo
Playback_NoWrap(r) ==
    IF r.gremlin.loaded /\ r.gremlin_texture # NoTexture /\ r.gremlin.animator # NoAnimator
    THEN LET an == r.gremlin.animator
             last == an.current_frame + 1 = an.sprite_count
         IN  [r EXCEPT !.presented = [name |-> an.name, frame |-> an.current_frame,
                                      last |-> last],
                       !.gate = IF last THEN TRUE ELSE r.gate,
                       !.exit = IF last /\ r.current_animation_name = "OUTRO"
                                THEN TRUE ELSE r.exit,
                       !.gremlin.animator.current_frame = an.current_frame + 1]
    ELSE r

\* the playback step with `should_check_for_action = true` outside the
\* last-frame test
Playback_GateAlways(r) ==
    IF r.gremlin.loaded /\ r.gremlin_texture # NoTexture /\ r.gremlin.animator # NoAnimator
    THEN LET an == r.gremlin.animator
             last == an.current_frame + 1 = an.sprite_count
         IN  [r EXCEPT !.presented = [name |-> an.name, frame |-> an.current_frame,
                                      last |-> last],
                       !.gate = TRUE,
                       !.exit = IF last /\ r.current_animation_name = "OUTRO"
                                THEN TRUE ELSE r.exit,
                       !.gremlin.animator.current_frame =
                            (an.current_frame + 1) % an.sprite_count]
    ELSE r

\* the playback state: [gremlin, current_animation_name, gremlin_texture, gate,
\* exit, presented]
\* render.rs:131-151: present the current frame, detect completion, advance
Playback(r) ==
    IF r.gremlin.loaded /\ r.gremlin_texture # NoTexture /\ r.gremlin.animator # NoAnimator
    THEN LET an == r.gremlin.animator
             last == an.current_frame + 1 = an.sprite_count
         IN  [r EXCEPT !.presented = [name |-> an.name, frame |-> an.current_frame,
                                      last |-> last],
                       !.gate = IF last THEN TRUE ELSE r.gate,
                       !.exit = IF last /\ r.current_animation_name = "OUTRO"
                                THEN TRUE ELSE r.exit,
                       !.gremlin.animator.current_frame =
                            (an.current_frame + 1) % an.sprite_count]
    ELSE r

----------------------------------------------------------------------------
(* Spec: DGRuntime::go (runtime.rs:23-63)                                  *)

\* the raw events a frame of Spec draws from: the left button the behaviors
\* react to, pointer moves, window moves and Quit
FrameRawEvents ==
    {Ev("RawQuit", NoButton), Ev("RawMotion", NoButton), Ev("RawWindowMoved", NoButton),
     Ev("RawDown", "Left"), Ev("RawUp", "Left")}

RECURSIVE SeqsUpTo(_, _)
SeqsUpTo(S, n) ==
    IF n = 0 THEN {<<>>}
    ELSE LET shorter == SeqsUpTo(S, n - 1)
         IN  shorter \cup {Append(q, x) : q \in shorter, x \in S}

\* the raw events one pump_events call can find queued
FrameInputs == SeqsUpTo(FrameRawEvents, MaxRaw)

\* DGRuntime::register_behaviors (runtime.rs:15-21) keeps the order it is
\* given. The call that registers the behaviors is not part of the sources at
\* hand; the order is the one the specification describes: the scheduler's
\* drain runs before any other behavior, the others in the order of section 4.2
RegistrationOrder == <<"Render", "Common", "Click", "Drag", "Movement">>

\* `for behavior in self.behaviors.iter_mut()` visiting from the back
BehaviorAt_Reversed(i) == behaviors[Len(behaviors) + 1 - i]

\* `for behavior in self.behaviors.iter_mut()` (runtime.rs:43, 50): the i-th
\* behavior the loop visits
BehaviorAt(i) == behaviors[i]

Channels == [task_channel |-> task_channel, task_queue |-> task_queue]

\* the state DGRuntime::go starts the setup loop in, g the loaded entity
InitWith(g) ==
    /\ pc = "setup"
    /\ idx = 1
    /\ behaviors = RegistrationOrder
    /\ current_gremlin = g                   \* runtime.rs:34-38
    /\ task_channel = <<>>                   \* gremlin.rs:345
    /\ task_queue = <<>>                     \* gremlin.rs:344
    /\ should_check_for_action = TRUE        \* gremlin.rs:347
    /\ should_exit = FALSE                   \* gremlin.rs:340
    /\ current_animation_name = ""           \* GremlinRender::default
    /\ gremlin_texture = NoTexture
    /\ texture_cache = <<>>
    /\ drag = [is_dragging |-> FALSE, key_left |-> FALSE,
               move_torwards_cursor |-> FALSE, should_check_drag |-> FALSE]
    /\ movement = [is_active |-> FALSE, is_dragging |-> FALSE]
    /\ mouse = MouseDefault                  \* runtime.rs:41
    /\ event_set = {}
    /\ input_open = TRUE
    /\ resolved = NoResolution
    /\ presented = NoPresent
    /\ completed = FALSE
    /\ calls = <<>>
    /\ loader = LoaderInit
    /\ beat = BeatInit
    /\ MedObsInit
    /\ CacheObsInit

Init == \E g \in Entities : InitWith(g)

\* the loop over the behaviors ending one behavior early
AfterBehavior_SkipsLast(next_pc) ==
    IF idx + 1 < Len(behaviors)
    THEN /\ idx' = idx + 1
         /\ pc' = pc
    ELSE /\ idx' = 1
         /\ pc' = next_pc

\* where the loop over the behaviors goes after behavior idx
AfterBehavior(next_pc) ==
    IF idx < Len(behaviors)
    THEN /\ idx' = idx + 1
         /\ pc' = pc
    ELSE /\ idx' = 1
         /\ pc' = next_pc

\* runtime.rs:43-45: behavior.setup, CommonBehavior's (common.rs:7-23)
SetupCommon ==
    /\ pc = "setup"
    /\ BehaviorAt(idx) = "Common"
    /\ LET a == CommonSetup(Channels)
       IN  /\ task_channel' = a.task_channel
           /\ task_queue' = a.task_queue
    /\ AfterBehavior("recv")
    /\ calls' = Append(calls, <<"setup", "Common">>)
    /\ UNCHANGED <<behaviors, should_check_for_action, should_exit, current_gremlin,
                   current_animation_name, gremlin_texture, drag, movement,
                   medVars, medObs, texture_cache, cacheObs, appObs, loader, beat>>

\* runtime.rs:43-45: behavior.setup of the behaviors whose setup is empty
SetupOther ==
    /\ pc = "setup"
    /\ BehaviorAt(idx) # "Common"
    /\ AfterBehavior("recv")
    /\ calls' = Append(calls, <<"setup", BehaviorAt(idx)>>)
    /\ UNCHANGED <<behaviors, task_channel, task_queue, should_check_for_action,
                   should_exit, current_gremlin, current_animation_name,
                   gremlin_texture, drag, movement,
                   medVars, medObs, texture_cache, cacheObs, appObs, loader, beat>>

Stale(tasks) == [i \in 1..Len(tasks) |-> [tasks[i] EXCEPT !.fresh = FALSE]]

\* runtime.rs:47-49: a heartbeat is received and pump_events turns the queued
\* raw events into the frame's event set. `close`: this frame's raw events
\* are the last the platform delivers. Input is held back
\* while the channel and the queue are at their bounds.
FrameStart(raws, close) ==
    /\ pc = "recv"
    /\ raws # <<>> => /\ input_open
                      /\ Len(task_channel) < MaxChannel
                      /\ Len(task_queue) < MaxQueue
    /\ close => (input_open /\ raws # <<>>)
    /\ LET r == pump_events(mouse, {}, raws)
       IN  /\ mouse' = r.mouse
           /\ event_set' = r.event_set
    /\ input_open' = (input_open /\ ~close)
    /\ task_channel' = Stale(task_channel)
    /\ task_queue' = Stale(task_queue)
    /\ resolved' = NoResolution
    /\ presented' = NoPresent
    /\ completed' = completed
    /\ calls' = <<>>
    /\ pc' = "update"
    /\ idx' = 1
    /\ UNCHANGED <<behaviors, should_check_for_action, should_exit, current_gremlin,
                   current_animation_name, gremlin_texture, drag, movement,
                   medObs, texture_cache, cacheObs, loader, beat>>

\* runtime.rs:50-52: CommonBehavior::update
UpdateCommon ==
    /\ pc = "update"
    /\ BehaviorAt(idx) = "Common"
    /\ LET a == CommonUpdate(Channels, event_set)
       IN  /\ task_channel' = a.task_channel
           /\ task_queue' = a.task_queue
    /\ AfterBehavior("check")
    /\ calls' = Append(calls, <<"update", "Common">>)
    /\ UNCHANGED <<behaviors, should_check_for_action, should_exit, current_gremlin,
                   current_animation_name, gremlin_texture, drag, movement,
                   medVars, medObs, texture_cache, cacheObs, appObs, loader, beat>>

\* runtime.rs:50-52: GremlinClick::update
UpdateClick ==
    /\ pc = "update"
    /\ BehaviorAt(idx) = "Click"
    /\ LET a == ClickUpdate(Channels, event_set)
       IN  /\ task_channel' = a.task_channel
           /\ task_queue' = a.task_queue
    /\ AfterBehavior("check")
    /\ calls' = Append(calls, <<"update", "Click">>)
    /\ UNCHANGED <<behaviors, should_check_for_action, should_exit, current_gremlin,
                   current_animation_name, gremlin_texture, drag, movement,
                   medVars, medObs, texture_cache, cacheObs, appObs, loader, beat>>

\* runtime.rs:50-52: GremlinDrag::update
UpdateDrag ==
    /\ pc = "update"
    /\ BehaviorAt(idx) = "Drag"
    /\ LET r == DragUpdate(drag, Channels, event_set)
       IN  /\ drag' = r.drag
           /\ task_channel' = r.app.task_channel
           /\ task_queue' = r.app.task_queue
    /\ AfterBehavior("check")
    /\ calls' = Append(calls, <<"update", "Drag">>)
    /\ UNCHANGED <<behaviors, should_check_for_action, should_exit, current_gremlin,
                   current_animation_name, gremlin_texture, movement,
                   medVars, medObs, texture_cache, cacheObs, appObs, loader, beat>>

\* runtime.rs:50-52: GremlinMovement::update; `desired` is the directional
\* animation the cursor position selects in this frame
UpdateMovement(desired) ==
    /\ pc = "update"
    /\ BehaviorAt(idx) = "Movement"
    /\ LET m == MovementFlags(movement, event_set)
           a == MovementFollow(m, Channels, current_gremlin, desired)
       IN  /\ movement' = m
           /\ task_channel' = a.task_channel
           /\ task_queue' = a.task_queue
    /\ AfterBehavior("check")
    /\ calls' = Append(calls, <<"update", "Movement">>)
    /\ UNCHANGED <<behaviors, should_check_for_action, should_exit, current_gremlin,
                   current_animation_name, gremlin_texture, drag,
                   medVars, medObs, texture_cache, cacheObs, appObs, loader, beat>>

\* GremlinRender::update (render.rs:30-152) on the current state
RenderUpdate ==
    LET dr == PickTask(Drain(task_channel, task_queue), should_check_for_action)
        r0 == [gremlin |-> current_gremlin,
               current_animation_name |-> current_animation_name,
               texture_cache |-> texture_cache,
               gremlin_texture |-> gremlin_texture,
               gate |-> should_check_for_action,
               exit |-> should_exit,
               branch |-> "none",
               presented |-> NoPresent]
        r1 == Resolve(r0, dr.board)
        r2 == Playback(r1)
    IN  [drained |-> dr, resolved |-> r1, played |-> r2]

\* runtime.rs:50-52: GremlinRender::update
UpdateRender ==
    /\ pc = "update"
    /\ BehaviorAt(idx) = "Render"
    /\ \E u \in {RenderUpdate} :
           /\ task_channel' = u.drained.task_channel
           /\ task_queue' = u.drained.task_queue
           /\ current_gremlin' = u.played.gremlin
           /\ current_animation_name' = u.played.current_animation_name
           /\ texture_cache' = u.played.texture_cache
           /\ gremlin_texture' = u.played.gremlin_texture
           /\ should_check_for_action' = u.played.gate
           /\ should_exit' = u.played.exit
           /\ presented' = u.played.presented
           /\ completed' = IF u.resolved.branch \in {"hit", "miss"}
                           THEN u.played.presented.last
                           ELSE completed \/ u.played.presented.last
           /\ resolved' = [task |-> u.drained.board,
                           how |-> u.drained.how,
                           branch |-> u.resolved.branch,
                           popped |-> Len(task_queue)
                                      + (Len(task_channel) - Len(u.drained.task_channel)
                                         - (IF u.drained.how = "interrupt" THEN 1 ELSE 0))
                                      - Len(u.drained.task_queue),
                           gate_before |-> should_check_for_action,
                           gate_after |-> u.resolved.gate,
                           ran |-> TRUE]
    /\ AfterBehavior("check")
    /\ calls' = Append(calls, <<"update", "Render">>)
    /\ UNCHANGED <<behaviors, drag, movement, input_open,
                   medVars, medObs, cacheObs, loader, beat>>

\* the loop without the `break` on the exit flag
ExitCheck_NeverStops ==
    /\ pc = "check"
    /\ pc' = "recv"
    /\ event_set' = {}
    /\ UNCHANGED <<idx, behaviors, task_channel, task_queue, should_check_for_action,
                   should_exit, current_gremlin, current_animation_name,
                   gremlin_texture, drag, movement, mouse,
                   medObs, texture_cache, cacheObs, appObs, calls, loader, beat>>

\* runtime.rs:54-59: the exit flag is read once the behaviors have run
ExitCheck ==
    /\ pc = "check"
    /\ pc' = IF should_exit THEN "done" ELSE "recv"
    /\ event_set' = {}
    /\ UNCHANGED <<idx, behaviors, task_channel, task_queue, should_check_for_action,
                   should_exit, current_gremlin, current_animation_name,
                   gremlin_texture, drag, movement, mouse,
                   medObs, texture_cache, cacheObs, appObs, calls, loader, beat>>

Next ==
    \/ SetupCommon
    \/ SetupOther
    \/ \E raws \in FrameInputs, close \in BOOLEAN : FrameStart(raws, close)
    \/ UpdateCommon
    \/ UpdateClick
    \/ UpdateDrag
    \/ \E desired \in Directions : UpdateMovement(desired)
    \/ UpdateRender
    \/ ExitCheck

Spec == Init /\ [][Next]_vars

\* the steps of the frame loop that wait for no input: a frame that finds no
\* raw events queued, the behaviors' updates and the exit check
Heartbeat ==
    \/ FrameStart(<<>>, FALSE)
    \/ UpdateCommon
    \/ UpdateClick
    \/ UpdateDrag
    \/ \E desired \in Directions : UpdateMovement(desired)
    \/ UpdateRender
    \/ ExitCheck

\* the heartbeat thread keeps sending while the receiver lives
\* (runtime.rs:26-31), so the frame loop keeps taking steps
FairSpec == Spec /\ WF_vars(Heartbeat)

----------------------------------------------------------------------------
(* SpecLoader: AsyncAnimationLoader (io.rs), its supervisor, checker and   *)
(* processor threads and the decode tasks                                  *)

loaderRest == <<medVars, medObs, texture_cache, cacheObs, appVars, appObs, calls, beat>>

Load(h) == [kind |-> "Load", handle |-> h]
Die == [kind |-> "Die", handle |-> 0]

\* JoinHandle::is_finished: the task returned or panicked
IsFinished(l, h) == l.decode[h] \in {"finished", "panicked"}

\* the checker thread is running: it owns checker_heartbeat_rx
CheckerAlive(l) == l.checker \notin {"exited", "timed_out", "panicked"}

\* the checker holds the guard of handle_list (io.rs:42 to the end of the
\* loop body)
LockHeld(l) == l.checker \in {"reap", "join"}

\* Mutex::lock returns Err: the checker panicked while it held the guard
Poisoned(l) == l.checker = "panicked"

\* Sender::send on task_tx: the command is queued while the processor owns
\* the receiver, and lost otherwise
SendCommand(l, t) ==
    IF l.processor = "recv" THEN [l EXCEPT !.task_rx = Append(@, t)] ELSE l

\* Sender::send on a heartbeat sender: queued while the checker runs
SendBeat(l, b) ==
    IF CheckerAlive(l) THEN [l EXCEPT !.checker_heartbeat_rx = Append(@, b)] ELSE l

\* the processor's Die arm without the send of `false`
DieArm_NoSignal(l) == [l EXCEPT !.processor = "exited", !.task_rx = <<>>]

\* io.rs:77-80: `checker_heartbeat_tx.send(false); break`
DieArm(l) == [SendBeat(l, FALSE) EXCEPT !.processor = "exited", !.task_rx = <<>>]

\* io.rs:66-76: spawn the decode task and push its handle; lock().unwrap()
\* panics on a poisoned mutex
LoadArm(l, h) ==
    IF Poisoned(l)
    THEN [l EXCEPT !.processor = "panicked", !.task_rx = <<>>]
    ELSE [l EXCEPT !.task_rx = Tail(@),
                   !.handle_list = Append(@, h),
                   !.decode[h] = "running"]

\* io.rs:41-49: the indices of the finished handles, ascending
Scan(l) ==
    SelectSeq([i \in 1..Len(l.handle_list) |-> i],
              LAMBDA i : IsFinished(l, l.handle_list[i]))

\* io.rs:52-54, the join has returned for handle h: an Ok result is sent on
\* result_tx; the loop goes to the next index or ends the iteration
Joined(l, h) ==
    [l EXCEPT !.result_rx = IF l.decode[h] = "finished" THEN Append(@, h) ELSE @,
              !.decode[h] = "joined",
              !.joining = 0,
              !.checker = IF l.finished_handles = <<>> THEN "recv" ELSE "reap"]

\* io.rs:51-55, one iteration of `for handle_indx in finished_handles.iter()`:
\* Vec::remove panics past the end; join blocks while the task runs
Reap(l) ==
    LET i == Head(l.finished_handles)
    IN  IF i > Len(l.handle_list)
        THEN [l EXCEPT !.checker = "panicked"]
        ELSE LET h == l.handle_list[i]
                 l1 == [l EXCEPT !.handle_list = RemoveAt(@, i),
                                 !.finished_handles = Tail(@)]
             IN  IF IsFinished(l, h)
                 THEN Joined(l1, h)
                 ELSE [l1 EXCEPT !.checker = "join", !.joining = h,
                                 !.removed_unfinished = TRUE]

InitLoader ==
    /\ mouse = MouseDefault
    /\ event_set = {}
    /\ MedObsInit
    /\ texture_cache = <<>>
    /\ CacheObsInit
    /\ AppAtRest

\* the owner sends LoaderTask::Load on the public task_tx
OwnerLoad ==
    /\ loader.owner = "open"
    /\ loader.loads < MaxLoads
    /\ loader' = [SendCommand(loader, Load(loader.loads + 1)) EXCEPT !.loads = @ + 1]
    /\ UNCHANGED loaderRest

\* AsyncAnimationLoader::drop (io.rs:100-101): Die is sent
OwnerDrop ==
    /\ loader.owner = "open"
    /\ loader' = [SendCommand(loader, Die) EXCEPT !.owner = "join"]
    /\ UNCHANGED loaderRest

\* AsyncAnimationLoader::drop (io.rs:102-104): the join of the supervisor
\* thread returns
OwnerJoined ==
    /\ loader.owner = "join"
    /\ loader.supervisor = "exited"
    /\ loader' = [loader EXCEPT !.owner = "dropped"]
    /\ UNCHANGED loaderRest

\* the processor (io.rs:63-84) receives one command; a Load waits for the
\* lock of handle_list
ProcessorRecv ==
    /\ loader.processor = "recv"
    /\ loader.task_rx # <<>>
    /\ Head(loader.task_rx).kind = "Load" => ~LockHeld(loader)
    /\ loader' = IF Head(loader.task_rx).kind = "Load"
                 THEN LoadArm(loader, Head(loader.task_rx).handle)
                 ELSE DieArm(loader)
    /\ UNCHANGED loaderRest

\* a decode task (io.rs:67-75) returns, or panics in unwrap()
DecodeFinish(h, ok) ==
    /\ loader.decode[h] = "running"
    /\ loader' = [loader EXCEPT !.decode[h] = IF ok THEN "finished" ELSE "panicked"]
    /\ UNCHANGED loaderRest

\* the supervisor's loop (io.rs:85-91): send(true) and sleep, or break once
\* the checker's receiver is gone
SupervisorBeat ==
    /\ loader.supervisor = "loop"
    /\ CheckerAlive(loader) => Len(loader.checker_heartbeat_rx) < MaxBeats
    /\ loader' = IF CheckerAlive(loader)
                 THEN SendBeat(loader, TRUE)
                 ELSE [loader EXCEPT !.supervisor = "exited"]
    /\ UNCHANGED loaderRest

\* the checker (io.rs:40-49) receives a heartbeat: `true` starts an
\* iteration, anything else ends the loop
CheckerRecv ==
    /\ loader.checker = "recv"
    /\ loader.checker_heartbeat_rx # <<>>
    /\ loader' = IF Head(loader.checker_heartbeat_rx)
                 THEN [loader EXCEPT !.checker_heartbeat_rx = Tail(@),
                                     !.finished_handles = Scan(loader),
                                     !.checker = IF Scan(loader) = <<>>
                                                 THEN "recv" ELSE "reap"]
                 ELSE [loader EXCEPT !.checker_heartbeat_rx = <<>>,
                                     !.checker = "exited"]
    /\ UNCHANGED loaderRest

\* recv_timeout(1 s) (io.rs:40) expires with no heartbeat queued
CheckerTimeout ==
    /\ loader.checker = "recv"
    /\ loader.checker_heartbeat_rx = <<>>
    /\ loader' = [loader EXCEPT !.checker = "timed_out"]
    /\ UNCHANGED loaderRest

\* io.rs:51-55: the next index of finished_handles
CheckerReap ==
    /\ loader.checker = "reap"
    /\ loader' = Reap(loader)
    /\ UNCHANGED loaderRest

\* the join the checker is blocked in returns
CheckerJoin ==
    /\ loader.checker = "join"
    /\ IsFinished(loader, loader.joining)
    /\ loader' = Joined(loader, loader.joining)
    /\ UNCHANGED loaderRest

Checker == CheckerRecv \/ CheckerTimeout \/ CheckerReap \/ CheckerJoin

\* task_rx.recv() cannot fail while the processor waits: drop sends Die
\* before task_tx is dropped
Processor == ProcessorRecv

Decode == \E h \in Handles, ok \in BOOLEAN : DecodeFinish(h, ok)

NextLoader ==
    \/ OwnerLoad
    \/ OwnerDrop
    \/ OwnerJoined
    \/ Processor
    \/ Decode
    \/ SupervisorBeat
    \/ Checker

SpecLoader == InitLoader /\ [][NextLoader]_vars

\* every thread that can take a step eventually takes one
FairLoader ==
    /\ SpecLoader
    /\ WF_vars(Checker)
    /\ WF_vars(Processor)
    /\ WF_vars(Decode)
    /\ WF_vars(SupervisorBeat)
    /\ WF_vars(OwnerJoined)

----------------------------------------------------------------------------
(* SpecHeartbeat: the heartbeat thread of DGRuntime::go and the frame      *)
(* loop as its consumer (runtime.rs:23-63)                                 *)

beatRest == <<medVars, medObs, texture_cache, cacheObs, appVars, appObs, calls, loader>>

\* mpsc::sync_channel::<()>(1) (runtime.rs:24)
HEARTBEAT_BOUND == 1

\* heartbeat_rx exists until drop(heartbeat_rx) (runtime.rs:61)
ReceiverAlive(b) == b.main \in {"start", "recv", "frame"}

\* a send that does not notice the dropped receiver
send_IgnoresDisconnect(b) ==
    IF b.slot < HEARTBEAT_BOUND
    THEN [b EXCEPT !.slot = @ + 1, !.thread = "sleep"]
    ELSE [b EXCEPT !.thread = "blocked"]

\* SyncSender::send (runtime.rs:27): Err once the receiver is dropped, also
\* for a sender that is blocked; otherwise the value is buffered, or the
\* sender blocks while the buffer is full
send(b) ==
    IF ~ReceiverAlive(b) THEN [b EXCEPT !.thread = "exited"]
    ELSE IF b.slot < HEARTBEAT_BOUND
    THEN [b EXCEPT !.slot = @ + 1, !.thread = "sleep"]
    ELSE [b EXCEPT !.thread = "blocked"]

\* drop(heartbeat_rx) (runtime.rs:61): the buffer goes with the receiver
DropReceiver(b) ==
    [b EXCEPT !.main = "dropped", !.slot = 0,
              !.blocked_at_drop = (b.thread = "blocked")]

InitHeartbeat ==
    /\ mouse = MouseDefault
    /\ event_set = {}
    /\ MedObsInit
    /\ texture_cache = <<>>
    /\ CacheObsInit
    /\ AppAtRest

\* runtime.rs:27: the thread calls send, or is blocked in it and the call
\* goes on
HbSend ==
    /\ beat.thread \in {"send", "blocked"}
    /\ send(beat) # beat
    /\ beat' = send(beat)
    /\ UNCHANGED beatRest

\* runtime.rs:28: thread::sleep ends
HbWake ==
    /\ beat.thread = "sleep"
    /\ beat' = [beat EXCEPT !.thread = "send"]
    /\ UNCHANGED beatRest

\* runtime.rs:33: DesktopGremlin::new succeeds and the loop is entered, or
\* fails and the loop is skipped
MainStart(ok) ==
    /\ beat.main = "start"
    /\ beat' = IF ok THEN [beat EXCEPT !.main = "recv"] ELSE DropReceiver(beat)
    /\ UNCHANGED beatRest

\* runtime.rs:47: heartbeat_rx.recv() returns a heartbeat
MainRecv ==
    /\ beat.main = "recv"
    /\ beat.slot > 0
    /\ beat' = [beat EXCEPT !.slot = @ - 1, !.main = "frame"]
    /\ UNCHANGED beatRest

\* runtime.rs:48-59, 61: the frame runs; with the exit flag set the loop
\* ends and the receiver is dropped
MainFrame(exit) ==
    /\ beat.main = "frame"
    /\ ~exit => beat.frames < MaxFrames
    /\ beat' = IF exit THEN DropReceiver(beat)
               ELSE [beat EXCEPT !.main = "recv", !.frames = @ + 1]
    /\ UNCHANGED beatRest

\* runtime.rs:62: heartbeat.join() returns
MainJoin ==
    /\ beat.main = "dropped"
    /\ beat.thread = "exited"
    /\ beat' = [beat EXCEPT !.main = "joined"]
    /\ UNCHANGED beatRest

HbThread == HbSend \/ HbWake

NextHeartbeat ==
    \/ HbThread
    \/ \E ok \in BOOLEAN : MainStart(ok)
    \/ MainRecv
    \/ \E exit \in BOOLEAN : MainFrame(exit)
    \/ MainJoin

SpecHeartbeat == InitHeartbeat /\ [][NextHeartbeat]_vars

\* the heartbeat thread and the joining thread are scheduled
FairHeartbeat == SpecHeartbeat /\ WF_vars(HbThread) /\ WF_vars(MainJoin)

----------------------------------------------------------------------------
(* Claims about the Event Mediator (SpecMediator)                          *)

Emits(ev) == \E e \in emitted : e.ev = ev

\* C1: when only one tracked button has had button events, each button-up of
\* that button emits exactly one of Click(button) and DragEnd(button), and it
\* is DragEnd iff a pointer-move occurred between the button's down and the up.
C1_UpEmitsClickXorDragEnd ==
    \A b \in TrackedButtons :
        (last_raw = Ev("RawUp", b) /\ used_buttons \subseteq {b}) =>
            /\ Emits(Ev("Click", b)) # Emits(Ev("DragEnd", b))
            /\ Emits(Ev("DragEnd", b)) <=> before.moved[b]

\* C1 witness: a button-up of Left after a down and a move, Left the only
\* button used, reported as DragEnd
C1_Witness ==
    /\ last_raw = Ev("RawUp", "Left")
    /\ used_buttons = {"Left"}
    /\ before.pressed["Left"]
    /\ before.moved["Left"]
    /\ Emits(Ev("DragEnd", "Left"))

\* C4 (as claimed): a button-up for a button that was never marked down emits
\* neither Click nor DragEnd for it and leaves the gesture state unchanged.
C4_UpWithoutDownEmitsNoGesture ==
    \A b \in RawButtons :
        (last_raw = Ev("RawUp", b) /\ b \notin ever_down) =>
            /\ ~Emits(Ev("Click", b))
            /\ ~Emits(Ev("DragEnd", b))
            /\ mouse = before.mouse

----------------------------------------------------------------------------
(* Claims about the TextureCache (SpecCache)                               *)

\* the names of a sequence of names other than `name`, in order
Without(names, name) == SelectSeq(names, LAMBDA n : n # name)

InCache(name) == \E k \in 1..Len(texture_cache) : texture_cache[k].name = name

\* C8: an insertion into a full cache evicts the least-recently-accessed entry
\* (insertions and lookup hits followed by rearrange being the accesses):
\* every entry that stays was accessed later than the evicted one.
C8_EvictsLeastRecentlyAccessed ==
    (cache_op.op = "insert" /\ cache_op.evicted # "-") =>
        /\ Len(cache_op.before) = CACHE_CAPACITY
        /\ \A k \in 1..Len(texture_cache) :
              last_access[NameIndex(texture_cache[k].name)]
                  > last_access[NameIndex(cache_op.evicted)]

\* C8 witness: the entry inserted first was re-accessed, and an insertion into
\* the full cache evicted the second-inserted entry while the first stays
C8_Witness ==
    /\ cache_op.op = "insert"
    /\ Len(cache_op.before) = CACHE_CAPACITY
    /\ cache_op.evicted = AnimationNames[2]
    /\ InCache(AnimationNames[1])
    /\ last_access[1] > CACHE_CAPACITY

\* C9: the cache never holds more than 10 entries; an insertion into a cache of
\* 10 removes the front entry and appends the new one at the back.
C9_AtMostCapacity ==
    /\ Len(texture_cache) <= CACHE_CAPACITY
    /\ (cache_op.op = "insert" /\ Len(cache_op.before) = CACHE_CAPACITY) =>
          /\ cache_op.evicted = Head(cache_op.before)
          /\ CacheNamesOf(texture_cache) = Append(Tail(cache_op.before), cache_op.name)

\* C9 witness: an insertion into a cache of 10 entries has happened
C9_Witness ==
    /\ cache_op.op = "insert"
    /\ Len(cache_op.before) = CACHE_CAPACITY
    /\ Len(texture_cache) = CACHE_CAPACITY

\* C10: lookup(name) + rearrange(index) for a name in the cache keeps the size,
\* leaves exactly one entry with that name, at the back, and keeps the
\* relative order of the other entries.
C10_HitKeepsSizeAndOrder ==
    cache_op.op = "hit" =>
        /\ Len(texture_cache) = Len(cache_op.before)
        /\ Cardinality({k \in 1..Len(texture_cache) :
                            texture_cache[k].name = cache_op.name}) = 1
        /\ texture_cache[Len(texture_cache)].name = cache_op.name
        /\ Without(CacheNamesOf(texture_cache), cache_op.name)
              = Without(cache_op.before, cache_op.name)

\* C10 witness: a second consecutive hit on a name that was not at the back
\* before the first one (hits = 2 and the entry was, and is, at the back)
C10_Witness ==
    /\ cache_op.op = "hit"
    /\ hits = 2
    /\ Len(texture_cache) >= 3
    /\ cache_op.before[Len(cache_op.before)] = cache_op.name
    /\ last_access[NameIndex(cache_op.name)] = clock

----------------------------------------------------------------------------
(* Claims about the task scheduler and the frame loop (Spec, FairSpec)     *)

\* C2: a task that was in the scheduler's queue when a PlayInterrupt was sent
\* is discarded: no later frame pops and resolves it.
C2_InterruptDiscardsQueued ==
    (resolved.ran /\ resolved.how = "pop") => ~resolved.task.doomed

\* the active task names an animation the loaded entity defines
ResolvesDefined ==
    /\ resolved.how # "none"
    /\ current_gremlin.loaded
    /\ current_gremlin.animation_map[resolved.task.name].status # "absent"

\* C3: with an entity loaded, every resolution of a task for an animation the
\* entity defines (popped task or interrupt, a restart included) leaves the
\* ready gate false; a frame without an active task leaves the gate alone;
\* and the gate is true after the scheduler's update only if it was true
\* after the resolution or the playback step presented the last frame of the
\* active animation.
C3_ResolutionClosesGate ==
    resolved.ran =>
        /\ ResolvesDefined => ~resolved.gate_after
        /\ resolved.how = "none" => resolved.gate_after = resolved.gate_before
        /\ (should_check_for_action /\ ~resolved.gate_after) => presented.last

\* a frame whose event set contains Quit, after which no raw events arrive,
\* with a loaded entity whose OUTRO decodes
QuitFrame ==
    /\ pc = "update"
    /\ idx = 1
    /\ MapHas(event_set, EvQuit)
    /\ ~input_open
    /\ current_gremlin.loaded
    /\ current_gremlin.animation_map["OUTRO"].status = "ok"

\* C5: a frame whose event set contains Quit leads to the exit flag being
\* set, provided no further input arrives (also with cursor-follow active).
C5_QuitLeadsToExit == QuitFrame ~> should_exit

C7_AtMostOneTaskPerFrame ==
    resolved.ran =>
        /\ resolved.popped \in {0, 1}
        /\ resolved.how = "interrupt" => (resolved.popped = 0 /\ IsInterrupt(resolved.task))
        /\ resolved.how = "pop" =>
              (resolved.popped = 1 /\ resolved.gate_before /\ ~IsInterrupt(resolved.task))
        /\ resolved.how = "none" =>
              /\ resolved.popped = 0
              /\ resolved.task = NoTask
              /\ resolved.gate_before => task_queue = <<>>
        /\ ~resolved.gate_before => resolved.popped = 0

\* an interrupt wins over a queued task although the gate was true
C7_Witness ==
    /\ resolved.ran
    /\ resolved.how = "interrupt"
    /\ resolved.gate_before
    /\ task_queue # <<>>
    /\ pc = "update" /\ idx = 2

\* C11: when the scheduler resolves a task that names the animation already
\* current, the cache (contents and order) and the active texture are left
\* as they were, the animator stays that of the same animation, and the frame
\* presented in that update is frame 0.
C11_RestartResetsFrameOnly ==
    [][(/\ ~resolved.ran
        /\ resolved'.ran
        /\ resolved'.how # "none"
        /\ HasAnimator(current_gremlin)
        /\ resolved'.task.name = current_animation_name)
       => (/\ texture_cache' = texture_cache
           /\ gremlin_texture' = gremlin_texture
           /\ current_gremlin'.animator.name = current_gremlin.animator.name
           /\ current_animation_name' = current_animation_name
           /\ presented'.name = current_gremlin.animator.name
           /\ presented'.frame = 0)]_vars

\* an interrupt restarts the current animation while further animations are cached
C11_Witness ==
    /\ resolved.ran
    /\ resolved.how = "interrupt"
    /\ resolved.branch = "restart"
    /\ resolved.task.name = current_animation_name
    /\ Len(texture_cache) >= 2
    /\ presented.frame = 0

----------------------------------------------------------------------------
(* Further claims about the Event Mediator (SpecMediator)                  *)

\* C12: a pointer-move emits DragStart(b) exactly when it is the first
\* pointer-move since b went down (and b has not gone up), and then it emits
\* no Drag(b); it emits Drag(b) exactly when an earlier pointer-move of b's
\* down-up cycle exists; with b not down it emits neither; and no other raw
\* event emits DragStart or Drag.
C12_DragStartOncePerCycle ==
    \A b \in TrackedButtons :
        /\ last_raw.kind = "RawMotion" =>
              /\ Emits(Ev("DragStart", b)) <=> (before.pressed[b] /\ ~before.moved[b])
              /\ Emits(Ev("Drag", b)) <=> (before.pressed[b] /\ before.moved[b])
        /\ last_raw.kind # "RawMotion" =>
              (~Emits(Ev("DragStart", b)) /\ ~Emits(Ev("Drag", b)))

\* a later pointer-move of a cycle: Drag and no second DragStart
C12_Witness ==
    /\ last_raw.kind = "RawMotion"
    /\ before.pressed["Left"] /\ before.moved["Left"]
    /\ Emits(Ev("Drag", "Left"))
    /\ ~Emits(Ev("DragStart", "Left"))
    /\ ~pressed["Right"]
    /\ ~Emits(Ev("Drag", "Right")) /\ ~Emits(Ev("DragStart", "Right"))

\* C20: for each tracked button, is_dragging implies is_down.
C20_DraggingImpliesDown ==
    \A b \in TrackedButtons : mouse.dragging[b] => mouse.down[b]

\* a button is dragging (and down) after another button was released
C20_Witness ==
    /\ mouse.dragging["Left"] /\ mouse.down["Left"]
    /\ last_raw = Ev("RawUp", "Right")
    /\ before.mouse.dragging["Right"]
    /\ ~mouse.dragging["Right"] /\ ~mouse.down["Right"]

----------------------------------------------------------------------------
(* SpecQuiet: the frame loop with the entity of the specification's        *)
(* startup scenario and no raw events                                      *)

\* the entity {INTRO: 8 frames, IDLE: 4 frames, OUTRO: 6 frames}
ScenarioMap ==
    [n \in AnimSet |->
        CASE n = "INTRO" -> Anim("ok", 8)
          [] n = "IDLE"  -> Anim("ok", 4)
          [] n = "OUTRO" -> Anim("ok", 6)
          [] OTHER       -> Anim("absent", 0)]

InitQuiet == InitWith(Gremlin(ScenarioMap))

\* DGRuntime::go when pump_events finds no raw event in any frame
NextQuiet ==
    \/ SetupCommon
    \/ SetupOther
    \/ FrameStart(<<>>, FALSE)
    \/ UpdateCommon
    \/ UpdateClick
    \/ UpdateDrag
    \/ \E desired \in Directions : UpdateMovement(desired)
    \/ UpdateRender
    \/ ExitCheck

SpecQuiet == InitQuiet /\ [][NextQuiet]_vars

TaskNames(tasks) == [i \in 1..Len(tasks) |-> tasks[i].name]

Shown(name, frame, count) == [name |-> name, frame |-> frame, last |-> frame + 1 = count]

\* C13: with the scenario entity and no input, setup leaves Play(INTRO) then
\* Play(IDLE) on the channel; the first frame pops INTRO and presents its
\* frame 0; each following frame presents the next INTRO frame up to frame 7,
\* which turns the ready gate true; the frame after that pops IDLE and
\* presents its frame 0; from then on every frame presents the next IDLE
\* frame modulo 4 with nothing resolved; the exit flag stays false.
C13_IntroThenIdleLoops ==
    [][/\ should_exit' = FALSE
       /\ (pc = "setup" /\ pc' = "recv") =>
             (/\ TaskNames(task_channel') = <<"INTRO", "IDLE">>
              /\ \A i \in 1..2 : task_channel'[i].kind = "Play")
       /\ (~resolved.ran /\ resolved'.ran) =>
             LET an == current_gremlin.animator
             IN  CASE ~HasAnimator(current_gremlin) ->
                        /\ resolved'.how = "pop" /\ resolved'.task.name = "INTRO"
                        /\ presented' = Shown("INTRO", 0, 8)
                        /\ TaskNames(task_queue') = <<"IDLE">>
                        /\ ~should_check_for_action'
                   [] HasAnimator(current_gremlin) /\ an.name = "INTRO"
                                                  /\ an.current_frame # 0 ->
                        /\ resolved'.how = "none"
                        /\ presented' = Shown("INTRO", an.current_frame, 8)
                        /\ should_check_for_action' = (an.current_frame = 7)
                        /\ TaskNames(task_queue') = <<"IDLE">>
                   [] HasAnimator(current_gremlin) /\ an.name = "INTRO"
                                                  /\ an.current_frame = 0 ->
                        /\ should_check_for_action
                        /\ resolved'.how = "pop" /\ resolved'.task.name = "IDLE"
                        /\ presented' = Shown("IDLE", 0, 4)
                        /\ task_queue' = <<>>
                   [] HasAnimator(current_gremlin) /\ an.name = "IDLE" ->
                        /\ resolved'.how = "none"
                        /\ presented' = Shown("IDLE", an.current_frame, 4)
                        /\ task_queue' = <<>> /\ task_channel' = <<>>
                   [] OTHER -> FALSE]_vars

\* IDLE is in its second round: its frame 0 is presented with nothing resolved
C13_Witness ==
    /\ pc = "check"
    /\ presented = Shown("IDLE", 0, 4)
    /\ resolved.ran /\ resolved.how = "none"
    /\ should_check_for_action
    /\ ~should_exit
    /\ CacheNamesOf(texture_cache) = <<"INTRO", "IDLE">>

----------------------------------------------------------------------------
(* Scenario claims about the frame loop (Spec, FairSpec)                   *)

\* IDLE is looping: it is the current animation and no task is pending
IdleLooping ==
    /\ HasAnimator(current_gremlin)
    /\ current_gremlin.animator.name = "IDLE"
    /\ current_animation_name = "IDLE"
    /\ task_channel = <<>>
    /\ task_queue = <<>>

\* a frame that starts with IDLE looping and whose event set holds a Click of
\* the primary button, the last input; the entity's CLICK animation decodes
ClickWhileIdle ==
    /\ pc = "update"
    /\ idx = 1
    /\ MapHas(event_set, Ev("Click", "Left"))
    /\ ~input_open
    /\ IdleLooping
    /\ current_gremlin.animation_map["CLICK"].status = "ok"

\* C14: a Click while IDLE loops leads to the click animation presenting its
\* last frame, and to IDLE being the active animation again.
C14_ClickReactionThenIdle ==
    /\ ClickWhileIdle ~> (presented.name = "CLICK" /\ presented.last)
    /\ ClickWhileIdle ~> (presented.name = "IDLE" /\ current_animation_name = "IDLE"
                          /\ "CLICK" \in {texture_cache[i].name : i \in 1..Len(texture_cache)})

\* a frame whose event set reports the start of a drag of the primary button,
\* the button being held with no input after it, for a loaded entity whose
\* GRAB animation decodes
DragStartFrame ==
    /\ pc = "update"
    /\ idx = 1
    /\ MapHas(event_set, Ev("DragStart", "Left"))
    /\ ~input_open
    /\ current_gremlin.loaded
    /\ current_gremlin.animation_map["GRAB"].status = "ok"

\* Quit arrives while the primary button is being dragged, as the last input
QuitMidDrag == QuitFrame /\ mouse.dragging["Left"]

\* C15: the start of a drag leads to the grab animation being presented, and
\* a Quit arriving mid-drag with no further input leads to the exit flag
\* being set in the frame that presents OUTRO's last frame.
C15_QuitMidDragLeadsToExit ==
    /\ DragStartFrame ~> (presented.name = "GRAB")
    /\ QuitMidDrag ~> (should_exit /\ presented.name = "OUTRO" /\ presented.last)

\* C16: whenever the exit flag is true, the frame presented by the playback
\* step that set it is the last frame of OUTRO.
C16_ExitOnlyAfterOutro ==
    should_exit => (presented.name = "OUTRO" /\ presented.last)

\* C17: a frame with an active animation presents the frame at current_frame
\* (the one the animator held before the frame when no task was resolved),
\* leaves current_frame at (presented frame + 1) mod frame_count, and the
\* playback step turns the ready gate true exactly when the presented frame
\* was the last one: otherwise the gate is as the resolution left it.
C17_PlaybackAdvancesAndGates ==
    [][(~resolved.ran /\ resolved'.ran /\ HasAnimator(current_gremlin')
        /\ gremlin_texture' # NoTexture)
       => LET an == current_gremlin'.animator
          IN  /\ presented'.name = an.name
              /\ resolved'.how = "none" =>
                    /\ HasAnimator(current_gremlin)
                    /\ an.name = current_gremlin.animator.name
                    /\ presented'.frame = current_gremlin.animator.current_frame
              /\ an.current_frame = (presented'.frame + 1) % an.sprite_count
              /\ presented'.last <=> (presented'.frame + 1 = an.sprite_count)
              /\ should_check_for_action' = (resolved'.gate_after \/ presented'.last)]_vars

\* the last frame of an animation of several frames was presented with the
\* gate closed: the gate is now open and current_frame wrapped to 0
C17_Witness ==
    /\ resolved.ran
    /\ ~resolved.gate_after
    /\ HasAnimator(current_gremlin)
    /\ current_gremlin.animator.sprite_count >= 2
    /\ presented.last
    /\ presented.frame + 1 = current_gremlin.animator.sprite_count
    /\ current_gremlin.animator.current_frame = 0
    /\ should_check_for_action

\* a task without its observation marks
TaskKey(task) == <<task.kind, task.name>>

TaskKeys(tasks) == [i \in 1..Len(tasks) |-> TaskKey(tasks[i])]

\* the tasks sent and not yet resolved or discarded, oldest first
Pending == TaskKeys(task_queue) \o TaskKeys(task_channel)

IsPrefix(s, t) == Len(s) <= Len(t) /\ SubSeq(t, 1, Len(s)) = s

\* C18: the scheduler's update moves every task it reads off the channel
\* and into the queue once, keeping the sending order; a pop resolves the
\* oldest pending task, which then is pending no more; an interrupt resolves
\* the first PlayInterrupt on the channel and leaves the other tasks in
\* order; every other step only appends to the channel or empties the queue.
C18_FifoAndConsumedOnce ==
    [][IF ~resolved.ran /\ resolved'.ran
       THEN CASE resolved'.how = "none" ->
                    /\ Pending' = Pending
                    /\ task_channel' = <<>>
              [] resolved'.how = "pop" ->
                    /\ Pending # <<>>
                    /\ TaskKey(resolved'.task) = Head(Pending)
                    /\ resolved'.task.kind = "Play"
                    /\ Pending' = Tail(Pending)
                    /\ task_channel' = <<>>
              [] resolved'.how = "interrupt" ->
                    \E k \in 1..Len(task_channel) :
                        /\ \A i \in 1..(k - 1) : task_channel[i].kind = "Play"
                        /\ TaskKey(resolved'.task) = TaskKey(task_channel[k])
                        /\ resolved'.task.kind = "PlayInterrupt"
                        /\ TaskKeys(task_queue') =
                              TaskKeys(task_queue) \o TaskKeys(SubSeq(task_channel, 1, k - 1))
                        /\ TaskKeys(task_channel') =
                              TaskKeys(SubSeq(task_channel, k + 1, Len(task_channel)))
       ELSE /\ TaskKeys(task_queue') \in {TaskKeys(task_queue), <<>>}
            /\ IsPrefix(TaskKeys(task_channel), TaskKeys(task_channel'))]_vars

\* two different Play tasks were pending in the queue and the older one was
\* popped: the younger one is still queued, once
C18_Witness ==
    /\ resolved.ran
    /\ resolved.how = "pop"
    /\ resolved.task.name = "INTRO"
    /\ TaskKeys(task_queue) = <<(<<"Play", "IDLE">>)>>
    /\ task_channel = <<>>
    /\ pc = "update" /\ idx = 2

\* the first n calls of a pass over the registered behaviors
Pass(method, n) == [i \in 1..n |-> <<method, behaviors[i]>>]

\* C19: the calls made so far in the current pass are those of the first
\* behaviors in registration order, each once; the first pass is the setup
\* pass, which is complete before any update and is never entered again;
\* each frame's pass of updates is complete when the exit flag is read.
C19_SetupOnceThenUpdatesInOrder ==
    /\ [](/\ pc = "setup" => calls = Pass("setup", idx - 1)
          /\ pc = "update" => calls = Pass("update", idx - 1)
          /\ pc \in {"check", "done"} => calls = Pass("update", Len(behaviors))
          /\ pc = "recv" => calls \in {Pass("setup", Len(behaviors)),
                                       Pass("update", Len(behaviors))})
    /\ [][/\ pc # "setup" => pc' # "setup"
          /\ pc' = "update" => pc \in {"recv", "update"}
          /\ (pc = "recv" /\ calls = Pass("setup", Len(behaviors))) =>
                (pc' = "update" /\ calls' = <<>>)]_vars

\* a frame after the first has made its pass of updates over the five
\* registered behaviors
C19_Witness ==
    /\ pc = "check"
    /\ Len(behaviors) = 5
    /\ calls = Pass("update", 5)
    /\ presented.name = "INTRO"
    /\ presented.frame = 1

----------------------------------------------------------------------------
(* Claims about the behaviors' updates (Spec)                              *)

\* the step is the update call of the named behavior
UpdateOf(name) == pc = "update" /\ calls' = Append(calls, <<"update", name>>)

\* the tasks the step appended to the channel
Sent == SubSeq(TaskKeys(task_channel'), Len(task_channel) + 1, Len(task_channel'))

\* C21: in every frame whose event set reports DragStart of the primary
\* button, the Drag behavior's update sends PlayInterrupt(GRAB), that task
\* alone, and leaves the task queue empty.
C21_GrabOnEveryDragStart ==
    [][(UpdateOf("Drag") /\ MapHas(event_set, Ev("DragStart", "Left")))
       => (/\ IsPrefix(TaskKeys(task_channel), TaskKeys(task_channel'))
           /\ Sent = <<(<<"PlayInterrupt", "GRAB">>)>>
           /\ task_queue' = <<>>)]_vars

\* C22: in every frame whose event set reports DragEnd of the primary
\* button, the Drag behavior's update sends PlayInterrupt(PAT) followed by
\* Play(IDLE) and ends with its gesture state clean: not dragging, button
\* not held.
C22_ReleaseOnDragEnd ==
    [][(UpdateOf("Drag") /\ MapHas(event_set, Ev("DragEnd", "Left")))
       => (/\ IsPrefix(TaskKeys(task_channel), TaskKeys(task_channel'))
           /\ Sent = <<(<<"PlayInterrupt", "PAT">>), (<<"Play", "IDLE">>)>>
           /\ ~drag'.is_dragging
           /\ ~drag'.key_left)]_vars

\* C23: when the Movement behavior's update sends a task, the behavior is
\* then active and not dragging, an animation is showing, and the one task
\* sent is the PlayInterrupt of a directional animation other than the one
\* showing; when it sends none, the channel and the queue are as before.
C23_MovementSendsOnlyOnChange ==
    [][UpdateOf("Movement")
       => /\ IsPrefix(TaskKeys(task_channel), TaskKeys(task_channel'))
          /\ Sent # <<>> =>
                /\ movement'.is_active
                /\ ~movement'.is_dragging
                /\ HasAnimator(current_gremlin)
                /\ Len(Sent) = 1
                /\ Sent[1][1] = "PlayInterrupt"
                /\ Sent[1][2] \in Directions
                /\ Sent[1][2] # current_gremlin.animator.name
          /\ Sent = <<>> =>
                /\ task_queue' = task_queue
                /\ task_channel' = task_channel]_vars

\* cursor-follow is active while IDLE shows: the Movement update, the last
\* of the frame, has sent the directional interrupt
C23_Witness ==
    /\ pc = "check"
    /\ movement.is_active
    /\ ~movement.is_dragging
    /\ HasAnimator(current_gremlin)
    /\ current_gremlin.animator.name = "IDLE"
    /\ task_channel # <<>>
    /\ TaskKey(task_channel[Len(task_channel)]) = <<"PlayInterrupt", "RUNLEFT">>
    /\ task_channel[Len(task_channel)].fresh
    /\ task_queue = <<>>

\* C24: in a frame whose event set is empty, the updates of the Lifecycle,
\* Click and Drag behaviors leave the channel, the task queue, the ready
\* gate, the exit flag and the Drag behavior's gesture state as they were.
C24_EmptyEventSetIsInert ==
    [][(event_set = {} /\ \E b \in {"Common", "Click", "Drag"} : UpdateOf(b))
       => (/\ task_channel' = task_channel
           /\ task_queue' = task_queue
           /\ should_check_for_action' = should_check_for_action
           /\ should_exit' = should_exit
           /\ drag' = drag)]_vars

\* an input-free frame in the middle of a gesture: the button is held, tasks
\* wait in the queue, and the three behaviors have run
C24_Witness ==
    /\ pc = "update"
    /\ idx = 5
    /\ calls = Pass("update", 4)
    /\ event_set = {}
    /\ drag.key_left
    /\ task_queue # <<>>

----------------------------------------------------------------------------
(* Claims about unavailable animations (Spec)                              *)

\* the scheduler's update resolved a task while no entity is loaded, or a
\* task whose name the entity's animation map does not hold
ResolvesUnavailable ==
    /\ ~resolved.ran
    /\ resolved'.ran
    /\ resolved'.how # "none"
    /\ \/ ~current_gremlin.loaded
       \/ current_gremlin.animation_map[resolved'.task.name].status = "absent"

\* C25: a task resolved with no entity loaded, or naming an animation absent
\* from the map, changes nothing: the cache, the active texture, the current
\* animation name and the entity are as before, the resolution leaves the
\* ready gate as it found it, the playback step goes on from the cursor the
\* animator held, and the frame's remaining updates follow.
C25_UnavailableTaskHasNoEffect ==
    [][ResolvesUnavailable
       => (/\ texture_cache' = texture_cache
           /\ gremlin_texture' = gremlin_texture
           /\ current_animation_name' = current_animation_name
           /\ resolved'.gate_after = resolved'.gate_before
           /\ pc' = "update" /\ idx' = 2
           /\ IF HasAnimator(current_gremlin)
              THEN /\ current_gremlin'.animation_map = current_gremlin.animation_map
                   /\ current_gremlin'.animator.name = current_gremlin.animator.name
                   /\ presented'.name = current_gremlin.animator.name
                   /\ presented'.frame = current_gremlin.animator.current_frame
              ELSE /\ current_gremlin' = current_gremlin
                   /\ presented' = NoPresent
                   /\ should_check_for_action' = should_check_for_action)]_vars

\* PlayInterrupt(CLICK) was resolved for an entity without a CLICK animation
\* while another animation was showing, which went on
C25_Witness ==
    /\ resolved.ran
    /\ resolved.how = "interrupt"
    /\ resolved.branch = "unknown"
    /\ resolved.task.name = "CLICK"
    /\ current_gremlin.loaded
    /\ current_gremlin.animation_map["CLICK"].status = "absent"
    /\ presented.name = "IDLE"
    /\ current_animation_name = "IDLE"

\* with no entity loaded, a frame resolved the first task of the setup and
\* presented nothing
C25_NoEntityReached ==
    /\ resolved.ran
    /\ resolved.how = "pop"
    /\ resolved.branch = "no-gremlin"
    /\ ~current_gremlin.loaded

----------------------------------------------------------------------------
(* Claims about the AsyncAnimationLoader (SpecLoader, FairLoader)          *)

\* C26: the checker forwards the result of a decode task once, after the
\* join of its finished handle; it never removes or joins a handle whose
\* task is still running and never indexes past the end of handle_list.
C26_ReaperJoinsFinishedOnly ==
    /\ loader.checker # "panicked"
    /\ ~loader.removed_unfinished
    /\ \A i, j \in 1..Len(loader.result_rx) :
          loader.result_rx[i] = loader.result_rx[j] => i = j
    /\ \A i \in 1..Len(loader.result_rx) : loader.decode[loader.result_rx[i]] = "joined"

\* C27: once drop has sent Die, the supervisor thread terminates and the
\* join in drop returns.
C27_DropReturns == (loader.owner = "join") ~> (loader.owner = "dropped")

\* drop has returned while a decode task was still running
C27_Witness ==
    /\ loader.owner = "dropped"
    /\ loader.supervisor = "exited"
    /\ loader.checker = "exited"
    /\ loader.processor = "exited"
    /\ \E h \in Handles : loader.decode[h] = "running"

\* C28: when the supervisor thread has exited after a Die that stopped the
\* checker, every decode task that was started has been joined.
C28_AllJoinedAtExit ==
    (loader.supervisor = "exited" /\ loader.checker = "exited") =>
        \A h \in Handles : loader.decode[h] \in {"unspawned", "joined"}

----------------------------------------------------------------------------
(* Claims about the heartbeat thread (SpecHeartbeat, FairHeartbeat)        *)

\* C29: once the runtime has dropped the heartbeat receiver, the heartbeat
\* thread exits and the join on it returns.
C29_HeartbeatJoinReturns == (beat.main = "dropped") ~> (beat.main = "joined")

\* the join returned although the thread was blocked in send on the full
\* channel when the receiver was dropped
C29_Witness ==
    /\ beat.main = "joined"
    /\ beat.thread = "exited"
    /\ beat.blocked_at_drop
    /\ beat.frames >= 1

----------------------------------------------------------------------------
(* Claims about the end of the frame loop (Spec)                           *)

\* C30: the exit flag is read once per frame, after the full pass of
\* updates; the loop stops at that read in the first frame in which the flag
\* is true, so that the flag is only ever true in the frame that set it and
\* nothing runs after the stop; the flag never goes back to false.
C30_StopsAtEndOfExitFrame ==
    /\ [](should_exit => (pc \in {"update", "check", "done"} /\ resolved.ran))
    /\ [][/\ should_exit => should_exit'
          /\ pc = "check" => pc' = (IF should_exit THEN "done" ELSE "recv")
          /\ pc' = "check" => (pc = "update" /\ calls' = Pass("update", Len(behaviors)))
          /\ pc' = "done" => pc = "check"
          /\ pc # "done"]_vars

\* the loop has stopped at the end of the frame that presented the last
\* frame of OUTRO, after the other behaviors of that frame had run
C30_Witness ==
    /\ pc = "done"
    /\ should_exit
    /\ calls = Pass("update", 5)
    /\ presented.name = "OUTRO"
    /\ presented.last

\* C31: the scheduler's drain reads the channel in arrival order; the Play
\* tasks in front of the first PlayInterrupt are appended to the queue in
\* that order, the first PlayInterrupt becomes the frame's task and the
\* tasks behind it stay on the channel, unread and in order; without a
\* PlayInterrupt the whole channel goes to the queue.  No other step takes
\* a task off the channel, so what was left is what the next drain reads.
C31_DrainStopsAtFirstInterrupt ==
    [][IF UpdateOf("Render")
       THEN LET ints == {i \in 1..Len(task_channel) :
                            task_channel[i].kind = "PlayInterrupt"}
            IN  IF ints = {}
                THEN /\ resolved'.how # "interrupt"
                     /\ task_channel' = <<>>
                     /\ TaskKeys(task_queue) \o TaskKeys(task_channel) =
                           (IF resolved'.how = "pop"
                            THEN <<TaskKey(resolved'.task)>> ELSE <<>>)
                           \o TaskKeys(task_queue')
                ELSE LET k == CHOOSE i \in ints : \A j \in ints : i <= j
                     IN  /\ resolved'.how = "interrupt"
                         /\ resolved'.task = task_channel[k]
                         /\ task_queue' = task_queue \o SubSeq(task_channel, 1, k - 1)
                         /\ task_channel' = SubSeq(task_channel, k + 1, Len(task_channel))
       ELSE IsPrefix(TaskKeys(task_channel), TaskKeys(task_channel'))]_vars

\* a drain stopped at a PlayInterrupt and left the Play behind it on the
\* channel for the next frame
C31_Witness ==
    /\ pc = "update" /\ idx = 2
    /\ resolved.ran
    /\ resolved.how = "interrupt"
    /\ task_channel # <<>>
    /\ task_channel[1].kind = "Play"

\* C32: a resolution of a task that names an animation other than the
\* active one and held by the cache keeps the cache size, moves that entry
\* to the back (most recently used) with the other entries in their order,
\* and makes the texture and the cursor copies of the entry: the frame
\* presented in that update is the entry's frame of that animation.
C32_HitPromotesAndActivates ==
    [][(/\ UpdateOf("Render")
        /\ resolved'.task # NoTask
        /\ HasAnimator(current_gremlin)
        /\ resolved'.task.name # current_gremlin.animator.name
        /\ \E i \in 1..Len(texture_cache) :
               texture_cache[i].name = resolved'.task.name)
       => LET n == Len(texture_cache)
              pos == CHOOSE i \in 1..n : texture_cache[i].name = resolved'.task.name
              e == texture_cache[pos]
          IN  /\ Len(texture_cache') = n
              /\ texture_cache'[n] = e
              /\ texture_cache'[n].name = resolved'.task.name
              /\ \A i \in 1..(n - 1) :
                     texture_cache'[i] = texture_cache[IF i < pos THEN i ELSE i + 1]
              /\ gremlin_texture' = e.texture
              /\ presented'.name = e.animator.name
              /\ presented'.frame = e.animator.current_frame
              /\ [current_gremlin'.animator
                      EXCEPT !.current_frame = e.animator.current_frame] = e.animator]_vars

\* a cache hit in a cache of three or more entries: the requested animation
\* is now at the back and showing
C32_Witness ==
    /\ pc = "update" /\ idx = 2
    /\ resolved.ran
    /\ resolved.branch = "hit"
    /\ Len(texture_cache) >= 3
    /\ texture_cache[Len(texture_cache)].name = resolved.task.name
    /\ presented.name = resolved.task.name

\* C33: a resolution of a task naming an animation of the entity's
\* animation map that decodes and is not held by the cache appends an entry
\* under that name at the back of the cache, with a cursor at frame 0, and
\* makes that cursor active in the same update: the frame that update
\* presents is frame 0 of that animation, and the cache already holds it.
C33_MissInsertsFreshCursor ==
    [][(/\ UpdateOf("Render")
        /\ resolved'.task # NoTask
        /\ current_gremlin.loaded
        /\ resolved'.task.name \in DOMAIN current_gremlin.animation_map
        /\ current_gremlin.animation_map[resolved'.task.name].status = "ok"
        /\ \A i \in 1..Len(texture_cache) :
               texture_cache[i].name # resolved'.task.name)
       => LET name == resolved'.task.name
              n == Len(texture_cache')
          IN  /\ n = Len(texture_cache) + 1
              /\ SubSeq(texture_cache', 1, n - 1) = texture_cache
              /\ texture_cache'[n].name = name
              /\ texture_cache'[n].animator.name = name
              /\ texture_cache'[n].animator.current_frame = 0
              /\ texture_cache'[n].texture = gremlin_texture'
              /\ presented'.name = name
              /\ presented'.frame = 0
              /\ [current_gremlin'.animator EXCEPT !.current_frame = 0]
                    = texture_cache'[n].animator]_vars

\* a miss that decoded while another animation was showing: the cache grew
\* to two entries or more and frame 0 of the new animation was presented
C33_Witness ==
    /\ pc = "update" /\ idx = 2
    /\ resolved.ran
    /\ resolved.branch = "miss"
    /\ Len(texture_cache) >= 2
    /\ texture_cache[Len(texture_cache)].name = resolved.task.name
    /\ presented.name = resolved.task.name
    /\ presented.frame = 0

\* C34: whenever the entity has an active cursor, current_animation_name is
\* the name of the animation that cursor plays.
C34_NameMatchesActiveCursor ==
    HasAnimator(current_gremlin)
        => current_animation_name = current_gremlin.animator.name

\* C35: whenever the entity has an active cursor, the back entry of the
\* cache is the entry of the animation that cursor plays and holds the
\* texture being displayed.
C35_BackEntryIsActive ==
    HasAnimator(current_gremlin)
        => /\ texture_cache # <<>>
           /\ texture_cache[Len(texture_cache)].name = current_gremlin.animator.name
           /\ texture_cache[Len(texture_cache)].animator.name = current_gremlin.animator.name
           /\ texture_cache[Len(texture_cache)].texture = gremlin_texture

\* the cache holds several entries and the cursor, in the middle of its
\* animation, is the one of the back entry
C35_Witness ==
    /\ HasAnimator(current_gremlin)
    /\ Len(texture_cache) >= 3
    /\ current_gremlin.animator.current_frame > 0
    /\ texture_cache[Len(texture_cache)].name = current_gremlin.animator.name
    /\ texture_cache[Len(texture_cache)].texture = gremlin_texture

\* C36: under the scheduler's use of the cache no two cache entries carry
\* the same animation name.
C36_NoDuplicateNames ==
    \A i, j \in 1..Len(texture_cache) :
        texture_cache[i].name = texture_cache[j].name => i = j

\* an animation already cached was requested again while another one was
\* active, and the cache holds four different animations
C36_Witness ==
    /\ pc = "update" /\ idx = 2
    /\ resolved.ran
    /\ resolved.branch = "hit"
    /\ Len(texture_cache) = 4
    /\ Cardinality({texture_cache[i].name : i \in 1..Len(texture_cache)}) = 4

\* C37: a Play task popped from the queue replaces the active animation
\* only after that animation has presented its last frame at least once
\* since it became active; a replacement before that comes from a
\* PlayInterrupt.
C37_PlayWaitsForCompletion ==
    [][(/\ UpdateOf("Render")
        /\ HasAnimator(current_gremlin)
        /\ resolved'.branch \in {"hit", "miss"}
        /\ ~completed)
       => /\ resolved'.how = "interrupt"
          /\ resolved'.task.kind = "PlayInterrupt"]_vars

\* a popped Play replaced an animation that had played to its last frame
C37_Witness ==
    /\ pc = "update" /\ idx = 2
    /\ resolved.ran
    /\ resolved.how = "pop"
    /\ resolved.branch = "miss"
    /\ resolved.task.name = "IDLE"
    /\ Len(texture_cache) >= 2
    /\ presented.name = "IDLE"

\* C38: every cache entry holds a cursor at frame 0, whatever the playback
\* step did to the active cursor since the entry was inserted; and every
\* resolution that installs another cursor, from the cache or freshly
\* decoded, presents frame 0 of the requested animation in that update.
C38_SwitchStartsAtFrameZero ==
    /\ [](\A i \in 1..Len(texture_cache) : texture_cache[i].animator.current_frame = 0)
    /\ [][(UpdateOf("Render") /\ resolved'.branch \in {"hit", "miss"})
          => /\ presented'.name = resolved'.task.name
             /\ presented'.frame = 0
             /\ current_gremlin'.animator.name = resolved'.task.name
             /\ current_gremlin'.animator.current_frame =
                    1 % current_gremlin'.animator.sprite_count]_vars

\* an animation that had been played before was taken from the cache again
\* and shown from frame 0; the active cursor has advanced, the cached one
\* has not
C38_Witness ==
    /\ pc = "update" /\ idx = 2
    /\ resolved.ran
    /\ resolved.branch = "hit"
    /\ presented.frame = 0
    /\ current_gremlin.animator.current_frame = 1
    /\ texture_cache[Len(texture_cache)].name = current_gremlin.animator.name
    /\ texture_cache[Len(texture_cache)].animator.current_frame = 0

\* the largest frame count the grid addressing is checked for
MaxSprites == 25

\* the cell (col, row) of a grid of DEFAULT_COLUMN_COUNT columns is frame
\* number `frame` of a sheet of `count` frames
AddressesFrame(rect, frame, count) ==
    /\ rect.col \in 0..(DEFAULT_COLUMN_COUNT - 1)
    /\ rect.row \in 0..((count + DEFAULT_COLUMN_COUNT - 1) \div DEFAULT_COLUMN_COUNT - 1)
    /\ rect.row * DEFAULT_COLUMN_COUNT + rect.col = frame
    /\ frame < count

\* C39: the active cursor plays an animation of one frame or more with
\* 0 <= current_frame < sprite_count, so the modulo of the playback step has
\* a divisor other than zero and the rectangle presented is a frame of the
\* sheet; the grid addressing reaches every frame of a sheet of up to
\* MaxSprites frames and no cell outside it.
C39_CursorWithinFrameCount ==
    /\ HasAnimator(current_gremlin)
          => LET an == current_gremlin.animator
             IN  /\ an.sprite_count >= 1
                 /\ an.current_frame \in 0..(an.sprite_count - 1)
                 /\ AddressesFrame(get_frame_rect(an), an.current_frame, an.sprite_count)
    /\ presented # NoPresent
          => /\ presented.name \in DOMAIN current_gremlin.animation_map
             /\ presented.frame \in
                    0..(current_gremlin.animation_map[presented.name].sprite_count - 1)
    /\ \A n \in 1..MaxSprites : \A f \in 0..(n - 1) :
          AddressesFrame(get_frame_rect([name |-> "-", current_frame |-> f,
                                         sprite_count |-> n]), f, n)

\* the last frame of an animation of several frames was presented and the
\* cursor wrapped to frame 0
C39_Witness ==
    /\ HasAnimator(current_gremlin)
    /\ current_gremlin.animator.sprite_count >= 3
    /\ presented.name = current_gremlin.animator.name
    /\ presented.last
    /\ presented.frame = current_gremlin.animator.sprite_count - 1
    /\ current_gremlin.animator.current_frame = 0

\* C40: while a tracked button d is dragging, a button-up of another
\* tracked button b that is down and not dragging emits neither Click(b)
\* nor DragEnd(b): the raw MouseButtonUp(b) is the only entry it inserts;
\* it clears the flags of b and leaves every other button's flags, those
\* of d among them, as they were.
C40_UpBesideDragIsRawOnly ==
    \A b \in TrackedButtons : \A d \in TrackedButtons \ {b} :
        (/\ last_raw = Ev("RawUp", b)
         /\ before.mouse.dragging[d]
         /\ before.mouse.down[b]
         /\ ~before.mouse.dragging[b])
        => /\ ~Emits(Ev("Click", b))
           /\ ~Emits(Ev("DragEnd", b))
           /\ emitted = {[ev |-> Ev("MouseButtonUp", b), data |-> "None"]}
           /\ MapHas(event_set, Ev("MouseButtonUp", b))
           /\ ~mouse.down[b] /\ ~mouse.dragging[b]
           /\ \A o \in TrackedButtons \ {b} :
                  /\ mouse.down[o] = before.mouse.down[o]
                  /\ mouse.dragging[o] = before.mouse.dragging[o]
           /\ mouse.down[d] /\ mouse.dragging[d]

\* Left is being dragged; Right went down after the last pointer-move and
\* is released: only the raw button-up is recorded and Left still drags
C40_Witness ==
    /\ last_raw = Ev("RawUp", "Right")
    /\ before.mouse.down["Left"] /\ before.mouse.dragging["Left"]
    /\ before.mouse.down["Right"] /\ ~before.mouse.dragging["Right"]
    /\ Emits(Ev("MouseButtonUp", "Right"))
    /\ mouse.down["Left"] /\ mouse.dragging["Left"]
    /\ ~mouse.down["Right"]

====
